---- MODULE Spec2Model ----
(***************************************************************************)
(* Flight search and booking assistant (Addisu87/flight-booking).          *)
(*                                                                         *)
(* The state machines of this module:                                      *)
(*   SpecAgent        one run of the Flight Search Agent: its tools         *)
(*                    (search_kayak_flights, create_no_flights_response,    *)
(*                    get_available_flights) and its output validator       *)
(*   SpecSearch       flight_services.search_flights and                    *)
(*                    batch_search_flights                                  *)
(*   SpecBooking      booking_services.select_seat_with_retry,              *)
(*                    buy_tickets and complete_booking_workflow             *)
(*   SpecBookingAgent booking_agent.process_booking                         *)
(*   SpecSeatAgent    one run of the Seat Selection Agent                   *)
(*   SpecKayak        kayak_search_tool                                     *)
(*   SpecApify        apify_browser_tool (SpecApifyFair: with fairness)     *)
(*   SpecQuick        booking_services.quick_booking                        *)
(*   SpecSummary      summarize_services.generate_flight_summary            *)
(*   SpecBrowserbase  browserbase_tool                                      *)
(*   SpecConsole      the console flow of main.py                           *)
(*                                                                         *)
(* A call that leaves the repository's own logic (a language model, a      *)
(* fetch tool, an agent run) is modelled by its outcome set: it raises or  *)
(* it yields one of the values of its return type.  The domain models of   *)
(* flight_models.py are modelled by their declarations: a field without a  *)
(* default is required, a field constraint rejects at construction.        *)
(***************************************************************************)
EXTENDS Integers, Sequences, FiniteSets, TLC

\* Python's None where a record is expected, where a text is expected and
\* where a date is expected
None == [kind |-> "None"]
NoText == "<None>"
NoDate == 0

(***************************************************************************)
(* Bounds                                                                  *)
(***************************************************************************)
MaxFlights == 2          \* longest flight list a model answer carries
MaxToolCalls == 2        \* tool calls the language model makes in one run
MaxToolFlights == 1      \* longest flight list a tool hands to the language model

(***************************************************************************)
(* Text.  An airport code is a tuple of characters; a page text is a       *)
(* tuple of words.  upper() and lower() act per character / per word.      *)
(***************************************************************************)
LowerLetters == {"a", "d", "x", "b"}
UpperLetters == {"A", "D", "X", "B", "Z"}
Digits == {"0", "7", "9"}

UpperChar(c) ==
    CASE c = "a" -> "A"
      [] c = "d" -> "D"
      [] c = "x" -> "X"
      [] c = "b" -> "B"
      [] OTHER -> c

Upper(s) == [i \in DOMAIN s |-> UpperChar(s[i])]

LowerWord(w) ==
    CASE w \in {"No", "NO", "no"} -> "no"
      [] w \in {"Flights", "FLIGHTS", "flights"} -> "flights"
      [] w \in {"Results", "RESULTS", "results"} -> "results"
      [] OTHER -> w

Lower(t) == [i \in DOMAIN t |-> LowerWord(t[i])]

\* Python's `phrase in text` at word granularity: a contiguous occurrence
Contains(t, p) ==
    \E i \in 1..(Len(t) - Len(p) + 1) : SubSeq(t, i, i + Len(p) - 1) = p

ADD == <<"A", "D", "D">>
DXB == <<"D", "X", "B">>

\* ^[A-Z]{3}$
IsAirportCode(s) ==
    /\ Len(s) = 3
    /\ \A i \in 1..3 : s[i] \in UpperLetters

(***************************************************************************)
(* flight_models.py                                                        *)
(***************************************************************************)
\* FlightSearchRequest(**fields): the set of supplied field names and their
\* values; TRUE when construction is accepted
FlightSearchRequestOk(supplied, origin, destination, departure_date) ==
    /\ {"origin", "destination", "departure_date", "passengers"} \subseteq supplied
    /\ IsAirportCode(origin)
    /\ IsAirportCode(destination)
    /\ departure_date # NoDate

\* NoFlightFound(**fields): message has a default; search_request,
\* suggestions and alternative_dates have none
NoFlightFoundRequired == {"search_request", "suggestions", "alternative_dates"}

NoFlightFoundOk(supplied) == NoFlightFoundRequired \subseteq supplied

MkRequest(o, d, dt, p) ==
    [origin |-> o, destination |-> d, departure_date |-> dt, passengers |-> p]

MkFlight(al, n, o, d, dt, pr) ==
    [airline |-> al, flight_number |-> n, origin |-> o, destination |-> d,
     date |-> dt, price |-> pr]

Requests == {MkRequest(ADD, DXB, 1, 1), MkRequest(DXB, ADD, 2, 2)}

FlightPool ==
    { MkFlight("Ethiopian", "ET600", ADD, DXB, 1, 3),
      MkFlight("Emirates", "EK724", ADD, DXB, 1, 2),
      MkFlight("Ethiopian", "ET602", ADD, DXB, 2, 4) }

FlightLists == UNION {[1..n -> FlightPool] : n \in 0..MaxFlights}

\* the lists the Extraction Agent or get_available_flights can hand back
ToolFlightLists == UNION {[1..n -> FlightPool] : n \in 0..MaxToolFlights}

\* min(flight.price for flight in flights)
MinPrice(fs) ==
    CHOOSE p \in {fs[i].price : i \in DOMAIN fs} :
        \A j \in DOMAIN fs : p <= fs[j].price

MkResult(r, fs) ==
    [kind |-> "FlightSearchResult", request |-> r, flights |-> fs,
     cheapest_flight |-> {}]

MkNoFlight(msg, sugg) ==
    [kind |-> "NoFlightFound", message |-> msg, suggestions |-> sugg]

StrOutput == [kind |-> "str"]
NoOutput == [kind |-> "none"]

\* a NoFlightFound the language model writes itself as its structured
\* answer (every required field present)
ModelNoFlight == MkNoFlight("No flights found matching your criteria.", <<>>)

\* cheapest_flight: float | None = None, a field the language model fills
\* in or leaves out like any other ({} stands for None; 3 is the minimum
\* of some flight lists and not of others)
CheapestChoices == {{}, {3}}

\* the answers the language model can give for a request
ModelOutputs(r) ==
    {StrOutput, ModelNoFlight} \cup
    {[MkResult(r, fs) EXCEPT !.cheapest_flight = c] :
        fs \in FlightLists, c \in CheapestChoices}

(***************************************************************************)
(* Page texts a fetch can return                                           *)
(***************************************************************************)
Texts ==
    { <<>>,
      <<"No", "Flights">>,
      <<"fare", "NO", "results">>,
      <<"no", "fare", "flights">> }

\* flight_search_agent.py: the no-results heuristic
NoResultsPattern(html) ==
    \/ Contains(Lower(html), <<"no", "flights">>)
    \/ Contains(Lower(html), <<"no", "results">>)

VARIABLES
    \* --- Flight Search Agent run ---
    variant,            \* which agent module runs: "search_agent" | "flight_agent"
    req,                \* ctx.deps.search_request
    apc,                \* "model" | "tool" | "validate" | "returned" | "raised"
    output,             \* the answer under validation
    retriesUsed,        \* output retries consumed (budget: retries=2)
    toolCalls,          \* tool calls made so far
    kpc,                \* search_kayak_flights: "idle" | "fetched" | "extract"
                        \*   | "raised"
    html,               \* html_content
    fetchedTexts,       \* every text the fetch tool returned in this run
    extractionInvoked,  \* flight_extraction_agent.run was called in this run
    toolResult,         \* last value a tool handed to the language model
    debug_scrape,       \* contents of debug_scrape_{origin}_{destination}.html
    final               \* the value agent.run() returned

agentVars ==
    <<variant, req, apc, output, retriesUsed, toolCalls, kpc, html,
      fetchedTexts, extractionInvoked, toolResult, debug_scrape, final>>

VARIABLES
    usageHasTotal,      \* the usage tracker exposes a total_usage attribute
    sreqs,              \* search_requests
    task,               \* per search_flights call: pc, outcome, raisedAt
    batchPc,                \* batch: "gather" | "returned" | "raised"
    processed           \* processed_results

searchVars == <<sreqs, task, batchPc, processed>>

VARIABLES
    wreq,               \* search_request
    available_flights,
    seat_prompt,        \* seat_preference_prompt / user_prompt: None, "" or a text
    max_attempts,       \* max_seat_retries, handed on as max_attempts
    wpc,                \* "search" | "select" | "fallback" | "buy" | "assemble"
                        \*   | "returned" | "raised"
    wflight,            \* the flight picked from the search result
    attempt,            \* loop variable of select_seat_with_retry
    seatLog,            \* one record per attempt made
    history,            \* current_message_history
    callerHistory,      \* the list the caller passed as message_history
    usageRequests,      \* requests accumulated in current_usage
    selectOutcome,      \* select_seat_with_retry: None, the seat returned, or an exception
    purchase,           \* what buy_tickets returned
    errorSeen,          \* something raised inside the workflow's try block
    wsteps,             \* the calls the workflow has made, in order:
                        \*   "search" | "select" | "buy"
    wresult             \* what complete_booking_workflow returned

bookingVars ==
    <<wreq, available_flights, seat_prompt, max_attempts, wpc, wflight, attempt,
      seatLog, history, callerHistory, usageRequests, selectOutcome, purchase,
      errorSeen, wsteps,
      wresult>>

VARIABLES
    regexEngine,        \* how the pattern of confirmation_number is read
    breq,               \* ctx.deps.search_request
    bflight,            \* ctx.deps.selected_flight
    bprompt,            \* ctx.deps.seat_preference_prompt
    pbpc,                \* "seat" | "confirm" | "returned" | "raised"
    bseatRun,           \* what seat_selection_agent.run() did, None if not called
    bseat,              \* seat
    bcode,              \* the generated confirmation number
    brejected,          \* fields BookingConfirmation(...) rejected
    bconf               \* the BookingConfirmation returned

bookingAgentVars ==
    <<regexEngine, breq, bflight, bprompt, pbpc, bseatRun, bseat, bcode,
      brejected, bconf>>

VARIABLES
    svariant,           \* "seat_selection_agent" | "seat_prefernece_agent"
    sapc,               \* "model" | "construct" | "validate" | "returned" | "raised"
    sraw,               \* the arguments the language model answered with
    sobj,               \* the object built from them, handed to the validator
    sretries,           \* output retries consumed (budget: retries=1)
    sfinal              \* the value seat_selection_agent.run() returned

seatAgentVars == <<svariant, sapc, sraw, sobj, sretries, sfinal>>

VARIABLES
    kreqs,              \* the requests kayak_search_tool is called with, in order
    kurls               \* the URLs it returned so far

kayakVars == <<kreqs, kurls>>

VARIABLES
    token,              \* settings.APIFY_API_TOKEN: None, "" or a token
    envPost,            \* how the run-start POST is answered
    envDelay,           \* status polls answered RUNNING before envTerminal
    envTerminal,        \* how the poll after them is answered
    envDataset,         \* how the dataset GET is answered
    tpc,                \* "start" | "post" | "poll" | "finished" | "dataset"
                        \*   | "returned" | "raised"
    posts,              \* requests.post calls made
    gets,               \* requests.get calls made
    polls,              \* status polls made
    run_status,         \* run_status
    status_data,        \* status["data"] of the last poll
    tresult,            \* the string returned
    tsuccess,           \* the return at line 135 was taken
    traised             \* the message of the exception that left the tool

apifyEnv == <<token, envPost, envDelay, envTerminal, envDataset>>

apifyVars ==
    <<apifyEnv, tpc, posts, gets, polls, run_status, status_data, tresult,
      tsuccess, traised>>

toolVars == <<seatAgentVars, kayakVars, apifyVars>>

VARIABLES
    qin                 \* quick_booking's arguments

quickVars == <<qin>>

VARIABLES
    sumReq,             \* generate_flight_summary: search_request
    sumFlights,         \* flights
    sumPc,              \* "run" | "format" | "fallback" | "returned" | "raised"
    sumAgent,           \* what summarize_agent.run did: "none" | "raised" | "answered"
    sumResult           \* the dictionary returned

summaryVars == <<sumReq, sumFlights, sumPc, sumAgent, sumResult>>

VARIABLES
    bbKey,              \* settings.BROWSERBASE_API_KEY: None, "" or a key
    bbProject,          \* settings.BROWSERBASE_PROJECT_ID
    bbEnv,              \* which of the remote calls raise, and the page served
    bbPc,               \* "check" | "create" | "connect" | "page" | "cleanup"
                        \*   | "returned" | "raised"
    bbNet,              \* requests sent to the session service or the browser
    bbErrors,           \* the remote calls that have raised
    bbPending,          \* what the inner try block is about to return
    bbResult            \* what browserbase_tool returned

browserbaseVars ==
    <<bbKey, bbProject, bbEnv, bbPc, bbNet, bbErrors, bbPending, bbResult>>

VARIABLES
    cin,                \* the booking form: origin, destination, date, seat text
    cpc,                \* "submit" | "search" | "select" | "book" | "done"
    csearch,            \* search_result.data
    cdeps,              \* the BookingDeps handed to the Booking Agent
    cshown              \* what the console displayed

consoleVars == <<cin, cpc, csearch, cdeps, cshown>>

serviceVars == <<quickVars, summaryVars, browserbaseVars, consoleVars>>


coreVars == <<agentVars, searchVars, bookingVars, bookingAgentVars>>

vars == <<coreVars, toolVars, usageHasTotal, serviceVars>>

\* what each machine leaves alone
outsideAgent ==
    <<searchVars, bookingVars, bookingAgentVars, usageHasTotal, toolVars, serviceVars>>
outsideSearch == <<agentVars, bookingVars, bookingAgentVars, toolVars, serviceVars>>
outsideBooking == <<agentVars, searchVars, bookingAgentVars, toolVars, serviceVars>>
outsideBookingAgent ==
    <<agentVars, searchVars, bookingVars, usageHasTotal, toolVars, serviceVars>>
outsideSeatAgent == <<coreVars, usageHasTotal, kayakVars, apifyVars, serviceVars>>
outsideKayak == <<coreVars, usageHasTotal, seatAgentVars, apifyVars, serviceVars>>
outsideApify == <<coreVars, usageHasTotal, seatAgentVars, kayakVars, serviceVars>>
outsideQuick ==
    <<agentVars, searchVars, bookingAgentVars, toolVars, summaryVars, browserbaseVars,
      consoleVars>>
outsideSummary == <<coreVars, toolVars, quickVars, browserbaseVars, consoleVars>>
outsideBrowserbase ==
    <<coreVars, usageHasTotal, toolVars, quickVars, summaryVars, consoleVars>>
outsideConsole ==
    <<coreVars, usageHasTotal, toolVars, quickVars, summaryVars, browserbaseVars>>

(***************************************************************************)
(* Flight Search Agent                                                     *)
(***************************************************************************)
Retries == 2

AgentIdle ==
    /\ variant = "search_agent"
    /\ req = MkRequest(ADD, DXB, 1, 1)
    /\ apc = "returned"
    /\ output = NoOutput
    /\ retriesUsed = 0
    /\ toolCalls = 0
    /\ kpc = "idle"
    /\ html = None
    /\ fetchedTexts = {}
    /\ extractionInvoked = FALSE
    /\ toolResult = None
    /\ debug_scrape = None
    /\ final = NoOutput

InitAgent ==
    /\ variant \in {"search_agent", "flight_agent"}
    /\ req \in Requests
    /\ apc = "model"
    /\ output = NoOutput
    /\ retriesUsed = 0
    /\ toolCalls = 0
    /\ kpc = "idle"
    /\ html = None
    /\ fetchedTexts = {}
    /\ extractionInvoked = FALSE
    /\ toolResult = None
    /\ debug_scrape = None
    /\ final = NoOutput

\* the per-flight test of both validators
MismatchNoDate(r, f) ==
    \/ Upper(f.origin) # Upper(r.origin)
    \/ Upper(f.destination) # Upper(r.destination)

Mismatch(r, f) ==
    \/ Upper(f.origin) # Upper(r.origin)
    \/ Upper(f.destination) # Upper(r.destination)
    \/ f.date # r.departure_date

\* invalid = [(i, f.flight_number) for i, f in enumerate(result.flights) if ...]
InvalidFlights(r, fs) ==
    LET pairs == [i \in DOMAIN fs |-> <<i - 1, fs[i]>>]
        bad == SelectSeq(pairs, LAMBDA p : Mismatch(r, p[2]))
    IN  [k \in DOMAIN bad |-> <<bad[k][1], bad[k][2].flight_number>>]

\* the language model calls search_kayak_flights: kayak_search_tool builds
\* the URL, then `await apify_browser_tool(url)` raises or yields a text
\* (the tool raises ValueError without a token; it is a plain function, and
\* awaiting the text it returns is one more way this line raises)
SearchKayakFetch ==
    /\ variant = "search_agent"
    /\ apc = "model"
    /\ kpc = "idle"
    /\ toolCalls < MaxToolCalls
    /\ toolCalls' = toolCalls + 1
    /\ \/ /\ apc' = "raised"          \* the fetch raises (no crawl token, or the
          /\ kpc' = "raised"          \* await of line 96): it leaves the tool
          /\ UNCHANGED <<html, fetchedTexts>>
       \/ /\ html' \in Texts
          /\ fetchedTexts' = fetchedTexts \cup {html'}
          /\ kpc' = "fetched"
          /\ apc' = "tool"
    /\ UNCHANGED <<variant, req, output, retriesUsed, extractionInvoked,
                   toolResult, debug_scrape, final>>
    /\ UNCHANGED outsideAgent

\* lines 98-114: the no-results check and the diagnostic file
SearchKayakCheck ==
    /\ apc = "tool"
    /\ kpc = "fetched"
    /\ IF html # <<>> /\ NoResultsPattern(html)
       THEN /\ toolResult' = <<>>
            /\ kpc' = "idle"
            /\ apc' = "model"
            /\ html' = None              \* the tool's frame is gone
            /\ UNCHANGED debug_scrape
       ELSE /\ kpc' = "extract"
            /\ debug_scrape' = IF html # <<>> THEN html ELSE debug_scrape
            /\ UNCHANGED <<toolResult, apc, html>>
    /\ UNCHANGED <<variant, req, output, retriesUsed, toolCalls,
                   fetchedTexts, extractionInvoked, final>>
    /\ UNCHANGED outsideAgent

\* lines 116-134: the Extraction Agent raises, answers a non-list, or
\* answers a list of flights
SearchKayakExtract ==
    /\ apc = "tool"
    /\ kpc = "extract"
    /\ extractionInvoked' = TRUE
    /\ \/ toolResult' = <<>>                  \* raised, or not a list
       \/ toolResult' \in ToolFlightLists
    /\ kpc' = "idle"
    /\ apc' = "model"
    /\ html' = None                      \* the tool's frame is gone
    /\ UNCHANGED <<variant, req, output, retriesUsed, toolCalls,
                   fetchedTexts, debug_scrape, final>>
    /\ UNCHANGED outsideAgent

\* the language model calls create_no_flights_response(reason): the tool
\* constructs NoFlightFound from search_request, message and suggestions
CreateNoFlightsSupplied == {"search_request", "message", "suggestions"}

CreateNoFlightsResponse ==
    /\ variant = "search_agent"
    /\ apc = "model"
    /\ toolCalls < MaxToolCalls
    /\ toolCalls' = toolCalls + 1
    /\ IF NoFlightFoundOk(CreateNoFlightsSupplied)
       THEN /\ toolResult' =
                 MkNoFlight("reason", <<"Try different dates",
                                        "Check airport codes", "Try again later">>)
            /\ UNCHANGED apc
       ELSE \* the construction error leaves the tool: the run fails or the
            \* error is handed back to the language model
            /\ apc' \in {"raised", "model"}
            /\ UNCHANGED toolResult
    /\ UNCHANGED <<variant, req, output, retriesUsed, kpc, html,
                   fetchedTexts, extractionInvoked, debug_scrape, final>>
    /\ UNCHANGED outsideAgent

\* flight_agent.py: get_available_flights returns ctx.deps.available_flights
GetAvailableFlights ==
    /\ variant = "flight_agent"
    /\ apc = "model"
    /\ toolCalls < MaxToolCalls
    /\ toolCalls' = toolCalls + 1
    /\ toolResult' \in ToolFlightLists
    /\ UNCHANGED <<variant, req, apc, output, retriesUsed, kpc, html,
                   fetchedTexts, extractionInvoked, debug_scrape, final>>
    /\ UNCHANGED outsideAgent

\* the language model gives its answer
ModelAnswers ==
    /\ apc = "model"
    /\ output' \in ModelOutputs(req)
    /\ apc' = "validate"
    /\ UNCHANGED <<variant, req, retriesUsed, toolCalls, kpc, html,
                   fetchedTexts, extractionInvoked, toolResult, debug_scrape, final>>
    /\ UNCHANGED outsideAgent

\* raise ModelRetry(...): the answer is regenerated while the budget lasts
ModelRetryOneMore ==
    /\ IF retriesUsed < Retries + 1
       THEN /\ retriesUsed' = retriesUsed + 1
            /\ apc' = "model"
       ELSE /\ apc' = "raised"
            /\ UNCHANGED retriesUsed
    /\ UNCHANGED <<output, final>>

ModelRetry ==
    /\ IF retriesUsed < Retries
       THEN /\ retriesUsed' = retriesUsed + 1
            /\ apc' = "model"
       ELSE /\ apc' = "raised"
            /\ UNCHANGED retriesUsed
    /\ UNCHANGED <<output, final>>

Accept(result) ==
    /\ final' = result
    /\ apc' = "returned"
    /\ UNCHANGED <<output, retriesUsed>>

\* flight_search_agent.py validate_flight_search
ValidateSearchAgent ==
    /\ variant = "search_agent"
    /\ apc = "validate"
    /\ IF output.kind = "str" THEN ModelRetry
       ELSE IF output.kind = "NoFlightFound" THEN Accept(output)
       ELSE IF InvalidFlights(req, output.flights) # <<>> THEN ModelRetry
       \* lines 172-180: calculate_analytics assigns self.cheapest_flights
       \* when there are flights, and the log call reads
       \* result.cheapest_price; FlightSearchResult declares neither name,
       \* so one of the two lines raises and the exception leaves the run
       ELSE /\ apc' = "raised"
            /\ UNCHANGED <<output, retriesUsed, final>>
    /\ UNCHANGED <<variant, req, toolCalls, kpc, html, fetchedTexts,
                   extractionInvoked, toolResult, debug_scrape>>
    /\ UNCHANGED outsideAgent

\* flight_agent.py validate_flight_search
ValidateFlightAgent ==
    /\ variant = "flight_agent"
    /\ apc = "validate"
    /\ IF output.kind = "str"
       \* no isinstance(result, str) test here: result.flights raises
       THEN /\ apc' = "raised"
            /\ UNCHANGED <<output, retriesUsed, final>>
       ELSE IF output.kind = "NoFlightFound" THEN Accept(output)
       ELSE IF \E i \in DOMAIN output.flights : Mismatch(req, output.flights[i])
            THEN ModelRetry
       ELSE Accept(output)
    /\ UNCHANGED <<variant, req, toolCalls, kpc, html, fetchedTexts,
                   extractionInvoked, toolResult, debug_scrape>>
    /\ UNCHANGED outsideAgent


(***************************************************************************)
(* flight_services.py: search_flights and batch_search_flights             *)
(***************************************************************************)
MaxRequests == 2         \* longest request list handed to batch_search_flights

Exception(type) == [kind |-> "exception", type |-> type]

SearchErrorMessage == "An error occurred during flight search."
SearchErrorSuggestions == <<"Please try again", "Contact support if issue persists">>

\* the fields each NoFlightFound(...) call of flight_services.py passes
ServiceNoFlightSupplied == {"search_request", "message", "suggestions"}

\* what flight_search_agent.run() can hand back (see SpecAgent): a
\* NoFlightFound, or a FlightSearchResult whose flights passed the validator
AgentRunResults(r) ==
    {ModelNoFlight} \cup
    {MkResult(r, fs) : fs \in {l \in FlightLists :
                                 \A i \in DOMAIN l : ~Mismatch(r, l[i])}}

SearchIdle ==
    /\ sreqs = <<>>
    /\ task = <<>>
    /\ batchPc = "returned"
    /\ processed = <<>>

\* batch_search_flights: current_usage = usage or RunUsage(), one object
BatchUsage == "current_usage"

\* search_flights(request, current_usage): inside, `usage or RunUsage()`
\* keeps the tracker it was handed
NewTask ==
    [pc |-> "fetch", outcome |-> NoOutput, raisedAt |-> NoText, usage |-> BatchUsage]

InitSearch ==
    /\ usageHasTotal \in BOOLEAN
    /\ sreqs \in UNION {[1..n -> Requests] : n \in 1..MaxRequests}
    /\ task = [i \in DOMAIN sreqs |-> NewTask]
    /\ batchPc = "gather"
    /\ processed = <<>>

\* an exception inside the try block of search_flights reaches its handler
Raise(i, step) ==
    task' = [task EXCEPT ![i].pc = "handler", ![i].raisedAt = step]

\* return NoFlightFound(...) inside the pipeline: the construction is
\* accepted and the value goes on to the completion log, or it raises
PipelineNoFlight(i, step, msg, sugg) ==
    IF NoFlightFoundOk(ServiceNoFlightSupplied)
    THEN task' = [task EXCEPT ![i].pc = "log", ![i].outcome = MkNoFlight(msg, sugg)]
    ELSE Raise(i, step)

\* _fetch_flight_search_page: URL build and fetch
FetchPage(i) ==
    /\ task[i].pc = "fetch"
    /\ \/ Raise(i, "fetch")                               \* the fetch raises
       \/ PipelineNoFlight(i, "fetch",                    \* an "Error..." text
             "Failed to load flight search results.",
             <<"Try again in a few minutes", "Check your internet connection">>)
       \/ task' = [task EXCEPT ![i].pc = "extract"]       \* a page text
    /\ UNCHANGED <<usageHasTotal, sreqs, batchPc, processed>>
    /\ UNCHANGED outsideSearch

\* _extract_flights_from_content, then the empty-list branch of the pipeline
ExtractFlights(i) ==
    /\ task[i].pc = "extract"
    /\ \/ Raise(i, "extract")
       \/ PipelineNoFlight(i, "extract",
             "No flights found for your search criteria.",
             <<"Try different dates", "Check airport codes", "Consider nearby airports">>)
       \/ task' = [task EXCEPT ![i].pc = "analyze"]       \* a non-empty list
    /\ UNCHANGED <<usageHasTotal, sreqs, batchPc, processed>>
    /\ UNCHANGED outsideSearch

\* _analyze_and_select_flights: the agent run, then the assignment of
\* search_duration, a name FlightSearchResult does not declare (rejected,
\* or dropped)
AnalyzeFlights(i) ==
    /\ task[i].pc = "analyze"
    /\ \/ Raise(i, "analyze")
       \/ \E r \in AgentRunResults(sreqs[i]) :
            \/ task' = [task EXCEPT ![i].pc = "log", ![i].outcome = r]
            \/ /\ r.kind = "FlightSearchResult"
               /\ Raise(i, "analyze")
    /\ UNCHANGED <<usageHasTotal, sreqs, batchPc, processed>>
    /\ UNCHANGED outsideSearch

\* search_flights lines 34-41: the completion log reads
\* current_usage.total_usage, then the result is returned
LogAndReturn(i) ==
    /\ task[i].pc = "log"
    /\ IF usageHasTotal
       THEN task' = [task EXCEPT ![i].pc = "done"]
       ELSE task' = [task EXCEPT ![i].pc = "handler", ![i].raisedAt = "log",
                                 ![i].outcome = NoOutput]
    /\ UNCHANGED <<usageHasTotal, sreqs, batchPc, processed>>
    /\ UNCHANGED outsideSearch

\* except Exception: return _handle_search_error(...)
HandleSearchError(i) ==
    /\ task[i].pc = "handler"
    /\ IF NoFlightFoundOk(ServiceNoFlightSupplied)
       THEN task' = [task EXCEPT ![i].pc = "done",
                                 ![i].outcome = MkNoFlight(SearchErrorMessage,
                                                           SearchErrorSuggestions)]
       ELSE task' = [task EXCEPT ![i].pc = "done",
                                 ![i].outcome = Exception("ValidationError")]
    /\ UNCHANGED <<usageHasTotal, sreqs, batchPc, processed>>
    /\ UNCHANGED outsideSearch

\* batch_search_flights after gather(return_exceptions=True): every
\* exception entry is replaced by NoFlightFound(search_request=
\* FlightSearchRequest(origin="", destination="", departure_date=None), ...),
\* then the completion log reads current_usage.total_usage
BatchPlaceholderOk ==
    /\ FlightSearchRequestOk({"origin", "destination", "departure_date"},
                             <<>>, <<>>, NoDate)
    /\ NoFlightFoundOk(ServiceNoFlightSupplied)

BatchConvert ==
    /\ batchPc = "gather"
    /\ \A i \in DOMAIN task : task[i].pc = "done"
    /\ LET failed == {i \in DOMAIN task : task[i].outcome.kind = "exception"}
       IN  IF (failed # {} /\ ~BatchPlaceholderOk) \/ ~usageHasTotal
           THEN /\ batchPc' = "raised"
                /\ UNCHANGED processed
           ELSE /\ batchPc' = "returned"
                /\ processed' =
                     [i \in DOMAIN task |->
                        IF i \in failed
                        THEN MkNoFlight("Search failed", <<"Please try again">>)
                        ELSE task[i].outcome]
    /\ UNCHANGED <<usageHasTotal, sreqs, task>>
    /\ UNCHANGED outsideSearch

(***************************************************************************)
(* flight_models.py: SeatPreference                                        *)
(***************************************************************************)
SeatLetters == {"A", "B", "C", "D", "E", "F"}
MaxRow == 30

\* SeatPreference(**data): row, seat and seat_type are all declared without
\* a default
SeatPreferenceOk(supplied, row, seat) ==
    /\ {"row", "seat", "seat_type"} \subseteq supplied
    /\ row \in 1..MaxRow
    /\ seat \in SeatLetters

\* __init__ after super().__init__: seat_type is an attribute of every
\* constructed instance, so the first branch is never taken
DerivedSeatType(seat) == IF seat \in {"C", "D"} THEN "aisle" ELSE "middle"

MkSeat(row, seat) ==
    [kind |-> "SeatPreference", row |-> row, seat |-> seat,
     seat_type |-> DerivedSeatType(seat)]

SeatSelectionFailed == [kind |-> "SeatSelectionFailed"]

\* the seats a Seat Selection Agent run answers with
AgentSeats == {MkSeat(12, "A"), MkSeat(1, "C")}

\* string.ascii_uppercase and string.digits, sampled
CodeLetters == {"Q"}
CodeDigits == {"7"}
CodeLength == 6

(***************************************************************************)
(* booking_services.py                                                     *)
(***************************************************************************)
MaxSeatAttempts == 3     \* largest max_attempts / max_seat_retries tried

Prompts == {NoText, "", "12A"}
Answers == {"", "12A", "somewhere nice"}

BookingIdle ==
    /\ wreq = MkRequest(ADD, DXB, 1, 1)
    /\ available_flights = <<>>
    /\ seat_prompt = NoText
    /\ max_attempts = 1
    /\ wpc = "returned"
    /\ wflight = None
    /\ attempt = 1
    /\ seatLog = <<>>
    /\ history = <<>>
    /\ callerHistory = <<>>
    /\ usageRequests = 0
    /\ selectOutcome = None
    /\ purchase = None
    /\ errorSeen = FALSE
    /\ wsteps = <<>>
    /\ wresult = None

InitBooking ==
    /\ usageHasTotal \in BOOLEAN
    /\ wreq \in Requests
    /\ available_flights \in FlightLists
    /\ seat_prompt \in Prompts
    /\ max_attempts \in 1..MaxSeatAttempts
    /\ wpc = "search"
    /\ wflight = None
    /\ attempt = 1
    /\ seatLog = <<>>
    /\ history = <<>>
    /\ callerHistory = <<>>
    /\ usageRequests = 0
    /\ selectOutcome = None
    /\ purchase = None
    /\ errorSeen = FALSE
    /\ wsteps = <<>>
    /\ wresult = None

\* get_usage_stats reads usage.total_usage.request_count and its siblings
GetUsageStatsOk == usageHasTotal

\* return _create_error_result(reason, usage), from the try block or from
\* the except clause: when get_usage_stats raises inside the try block the
\* except clause calls _create_error_result again, and that call raises too
ErrorResult(reason) ==
    IF GetUsageStatsOk
    THEN /\ wpc' = "returned"
         /\ wresult' = [status |-> "error", reason |-> reason,
                        usage_stats |-> usageRequests,
                        confirmation_number |-> None, timestamp |-> "now"]
    ELSE /\ wpc' = "raised"
         /\ UNCHANGED wresult

\* what search_flights hands to the workflow
SearchOutcomes(r) ==
    {Exception("ValidationError"),
     MkNoFlight(SearchErrorMessage, SearchErrorSuggestions)} \cup AgentRunResults(r)

\* _extract_flight_from_search_result
ExtractFlightFromSearchResult(result, best_value_flight, available) ==
    IF result.flights = <<>> THEN None
    ELSE LET best == IF best_value_flight # None THEN best_value_flight
                     ELSE result.flights[1]
             hits == {i \in DOMAIN available :
                        /\ available[i].airline = best.airline
                        /\ available[i].flight_number = best.flight_number}
         IN  IF hits # {}
             THEN available[CHOOSE i \in hits : \A j \in hits : i <= j]
             ELSE IF available # <<>> THEN available[1] ELSE None

\* `if not flight:` after _extract_flight_from_search_result
NotFlightNever(flight) == FALSE

NotFlight(flight) == flight = None

\* complete_booking_workflow lines 309-325
WorkflowSearch ==
    /\ wpc = "search"
    /\ wsteps' = IF available_flights = <<>> THEN wsteps ELSE Append(wsteps, "search")
    /\ IF available_flights = <<>>
       THEN /\ ErrorResult("No available flights provided")
            /\ UNCHANGED <<wflight, errorSeen>>
       ELSE \E r \in SearchOutcomes(wreq), bv \in {None} \cup FlightPool :
              IF r.kind = "exception"
              THEN /\ errorSeen' = TRUE
                   /\ ErrorResult(r.type)
                   /\ UNCHANGED wflight
              ELSE IF r.kind = "NoFlightFound"
              THEN /\ ErrorResult(r.message)
                   /\ UNCHANGED <<wflight, errorSeen>>
              ELSE LET flight == ExtractFlightFromSearchResult(r, bv, available_flights)
                   IN  IF NotFlight(flight)
                       THEN /\ ErrorResult("No suitable flight found in search results")
                            /\ UNCHANGED <<wflight, errorSeen>>
                       ELSE /\ wflight' = flight
                            /\ wpc' = "select"
                            /\ UNCHANGED <<wresult, errorSeen>>
    /\ UNCHANGED <<usageHasTotal, wreq, available_flights, seat_prompt, max_attempts,
                   attempt, seatLog, history, callerHistory, usageRequests, selectOutcome,
                   purchase>>
    /\ UNCHANGED outsideBooking

\* what seat_selection_agent.run() does: it raises, or it answers with a
\* SeatSelectionFailed or a validated SeatPreference
SeatAgentOutcomes == {Exception("agent"), SeatSelectionFailed} \cup AgentSeats

\* `if seat:` in the loop of select_seat_with_retry
LoopNeverReturns(seat) == FALSE

LoopReturns(seat) == seat # None

\* seat_selection_agent.py: Agent(..., retries=1)
SeatRetries == 1

\* the requests a Seat Selection Agent run can make before it raises: none,
\* or up to one per try of its answer (retries=1)
FailedRunRequests == 0..(SeatRetries + 1)

\* the history after a run that raised: line 112 hands the run a copy of
\* the list, so what the run appended before raising is not seen
AfterFailedRunInPlace(h, added) == h \o added

AfterFailedRun(h, added) == h

\* one iteration of the loop of select_seat_with_retry:
\* _get_seat_preference_input, then _execute_single_seat_selection_attempt.
\* The run receives the usage tracker itself (usage=usage, line 113) and
\* counts its requests into it, whether it ends with an answer or raises
SeatAttempt ==
    /\ wpc = "select"
    /\ attempt <= max_attempts
    /\ wsteps' = IF attempt = 1 THEN Append(wsteps, "select") ELSE wsteps
    /\ \E typed \in Answers, run \in SeatAgentOutcomes, made \in FailedRunRequests :
         LET given == seat_prompt \notin {NoText, ""} /\ attempt = 1
             answer == IF given THEN seat_prompt ELSE typed
             called == answer # ""
             got == called /\ run.kind # "exception"
             seat == IF called /\ run.kind = "SeatPreference" THEN run ELSE None
             what == IF called THEN run.kind ELSE "empty"
         IN  /\ seatLog' = Append(seatLog, [attempt |-> attempt, asked |-> ~given,
                                            called |-> called, what |-> what,
                                            seat |-> seat, sent |-> history,
                                            usageBefore |-> usageRequests])
             /\ history' = IF got THEN Append(history, attempt)
                           ELSE IF called THEN AfterFailedRun(history, <<attempt>>)
                           ELSE history
             /\ usageRequests' = IF got THEN usageRequests + 1
                                 ELSE IF called THEN usageRequests + made
                                 ELSE usageRequests
             /\ IF LoopReturns(seat)
                THEN /\ selectOutcome' = seat
                     /\ wpc' = "buy"
                     /\ UNCHANGED attempt
                ELSE /\ attempt' = attempt + 1
                     /\ wpc' = IF attempt + 1 > max_attempts THEN "fallback" ELSE "select"
                     /\ UNCHANGED selectOutcome
    /\ UNCHANGED <<usageHasTotal, wreq, available_flights, seat_prompt, max_attempts,
                   wflight, purchase, errorSeen, wresult, callerHistory>>
    /\ UNCHANGED outsideBooking

\* _get_default_seat_fallback: SeatPreference(row=10, seat="C")
FallbackRow == 10
FallbackSeat == "C"
FallbackSupplied == {"row", "seat"}

SeatFallback ==
    /\ wpc = "fallback"
    /\ IF SeatPreferenceOk(FallbackSupplied, FallbackRow, FallbackSeat)
       THEN /\ selectOutcome' = MkSeat(FallbackRow, FallbackSeat)
            /\ wpc' = "buy"
            /\ UNCHANGED <<errorSeen, wresult>>
       ELSE \* the construction error leaves select_seat_with_retry and is
            \* caught by the workflow's except clause
            /\ selectOutcome' = Exception("ValidationError")
            /\ errorSeen' = TRUE
            /\ ErrorResult("ValidationError")
    /\ UNCHANGED <<usageHasTotal, wreq, available_flights, seat_prompt, max_attempts,
                   wflight, attempt, seatLog, history, callerHistory, usageRequests,
                   purchase, wsteps>>
    /\ UNCHANGED outsideBooking

\* _generate_confirmation_number: three letters, then three digits
GeneratedNumbers ==
    {l \o d : l \in [1..3 -> CodeLetters], d \in [1..3 -> CodeDigits]}

\* buy_tickets
BuyTickets ==
    /\ wpc = "buy"
    /\ \E code \in GeneratedNumbers :
         purchase' = [flight_number |-> wflight.flight_number,
                      airline |-> wflight.airline,
                      seat |-> selectOutcome,
                      price |-> wflight.price,
                      confirmation_number |-> code,
                      status |-> "confirmed",
                      passenger_count |-> 1]
    /\ wpc' = "assemble"
    /\ wsteps' = Append(wsteps, "buy")
    /\ UNCHANGED <<usageHasTotal, wreq, available_flights, seat_prompt, max_attempts,
                   wflight, attempt, seatLog, history, callerHistory, usageRequests,
                   selectOutcome,
                   errorSeen, wresult>>
    /\ UNCHANGED outsideBooking

\* complete_booking_workflow lines 344-361
AssembleResult ==
    /\ wpc = "assemble"
    /\ IF GetUsageStatsOk
       THEN /\ wpc' = "returned"
            /\ wresult' = [status |-> "success",
                           confirmation_number |-> purchase.confirmation_number,
                           usage_stats |-> usageRequests,
                           seat_selection_attempts |-> max_attempts]
            /\ UNCHANGED errorSeen
       ELSE /\ errorSeen' = TRUE
            /\ ErrorResult("AttributeError")
    /\ UNCHANGED <<usageHasTotal, wreq, available_flights, seat_prompt, max_attempts,
                   wflight, attempt, seatLog, history, callerHistory, usageRequests,
                   selectOutcome,
                   purchase, wsteps>>
    /\ UNCHANGED outsideBooking

(***************************************************************************)
(* flight_models.py: BookingConfirmation                                   *)
(***************************************************************************)
MinPassengers == 1
MaxPassengers == 9

\* [A-Z0-9]
UpperAlnum(c) == c \in UpperLetters \cup Digits \cup CodeLetters \cup CodeDigits

\* pattern=r'^[A-Z0-9]{6, 10}$'.  The quantifier is written with a blank
\* after the comma.  Python's re does not take "{6, 10}" for a quantifier:
\* it matches those seven characters literally.  An engine that skips the
\* blank reads it as {6,10}.
QuantifierText == <<"{", "6", ",", " ", "1", "0", "}">>

MatchesLiteral(s) ==
    /\ Len(s) = 1 + Len(QuantifierText)
    /\ UpperAlnum(s[1])
    /\ SubSeq(s, 2, Len(s)) = QuantifierText

MatchesCounted(s) ==
    /\ Len(s) \in 6..10
    /\ \A i \in DOMAIN s : UpperAlnum(s[i])

ConfirmationPattern(s, engine) ==
    IF engine = "python-re" THEN MatchesLiteral(s) ELSE MatchesCounted(s)

\* BookingConfirmation(flight=, seat=, passengers=, total_price=,
\* confirmation_number=): the fields construction rejects
BookingConfirmationErrors(flight, seat, passengers, total_price, code, engine) ==
    {f \in {"seat", "passengers", "total_price", "confirmation_number"} :
        \/ f = "seat" /\ seat = None                      \* seat: SeatPreference
        \/ f = "passengers" /\ passengers \notin MinPassengers..MaxPassengers
        \/ f = "total_price" /\ total_price < flight.price  \* validate_total_price
        \/ f = "confirmation_number" /\ ~ConfirmationPattern(code, engine)}

(***************************************************************************)
(* booking_agent.py: process_booking                                       *)
(***************************************************************************)
BookingPassengers == {0, 1, 2, MaxPassengers, MaxPassengers + 1}
BookingPrices == {-2, 0, 3}

BookingAgentIdle ==
    /\ regexEngine = "python-re"
    /\ breq = MkRequest(ADD, DXB, 1, 1)
    /\ bflight = None
    /\ bprompt = NoText
    /\ pbpc = "returned"
    /\ bseatRun = None
    /\ bseat = None
    /\ bcode = <<>>
    /\ brejected = {}
    /\ bconf = None

InitBookingAgent ==
    /\ regexEngine \in {"python-re", "rust-regex"}
    /\ breq \in {MkRequest(ADD, DXB, 1, p) : p \in BookingPassengers}
    /\ bflight \in {MkFlight("Ethiopian", "ET600", ADD, DXB, 1, pr) : pr \in BookingPrices}
    /\ bprompt \in Prompts
    /\ pbpc = "seat"
    /\ bseatRun = None
    /\ bseat = None
    /\ bcode = <<>>
    /\ brejected = {}
    /\ bconf = None

\* process_booking lines 119-126: seat selection, every failure swallowed
ProcessBookingSeat ==
    /\ pbpc = "seat"
    /\ IF bprompt \in {NoText, ""}
       THEN UNCHANGED <<bseatRun, bseat>>
       ELSE \E run \in SeatAgentOutcomes :
              /\ bseatRun' = run
              /\ bseat' = IF run.kind = "SeatPreference" THEN run ELSE None
    /\ pbpc' = "confirm"
    /\ UNCHANGED <<regexEngine, breq, bflight, bprompt, bcode, brejected, bconf>>
    /\ UNCHANGED outsideBookingAgent

\* total_price = flight.price * ctx.deps.search_request.passengers
TotalPriceOfOne(price, passengers) == price

TotalPrice(price, passengers) == price * passengers

\* "".join(random.choices(string.ascii_uppercase + string.digits, k=6))
RandomCodes == [1..CodeLength -> CodeLetters \cup CodeDigits]

\* process_booking lines 128-139
ProcessBookingConfirm ==
    /\ pbpc = "confirm"
    /\ \E code \in RandomCodes :
         LET passengers == breq.passengers
             total_price == TotalPrice(bflight.price, passengers)
             errors == BookingConfirmationErrors(bflight, bseat, passengers,
                                                 total_price, code, regexEngine)
         IN  /\ bcode' = code
             /\ brejected' = errors
             /\ IF errors = {}
                THEN /\ pbpc' = "returned"
                     /\ bconf' = [flight |-> bflight, seat |-> bseat,
                                  passengers |-> passengers,
                                  total_price |-> total_price,
                                  confirmation_number |-> code,
                                  status |-> "booked"]
                ELSE /\ pbpc' = "raised"
                     /\ UNCHANGED bconf
    /\ UNCHANGED <<regexEngine, breq, bflight, bprompt, bseatRun, bseat>>
    /\ UNCHANGED outsideBookingAgent

NextAgent ==
    \/ SearchKayakFetch
    \/ SearchKayakCheck
    \/ SearchKayakExtract
    \/ CreateNoFlightsResponse
    \/ GetAvailableFlights
    \/ ModelAnswers
    \/ ValidateSearchAgent
    \/ ValidateFlightAgent

NextSearch ==
    \/ \E i \in DOMAIN task : FetchPage(i)
    \/ \E i \in DOMAIN task : ExtractFlights(i)
    \/ \E i \in DOMAIN task : AnalyzeFlights(i)
    \/ \E i \in DOMAIN task : LogAndReturn(i)
    \/ \E i \in DOMAIN task : HandleSearchError(i)
    \/ BatchConvert

NextBooking ==
    \/ WorkflowSearch
    \/ SeatAttempt
    \/ SeatFallback
    \/ BuyTickets
    \/ AssembleResult

NextBookingAgent ==
    \/ ProcessBookingSeat
    \/ ProcessBookingConfirm

(***************************************************************************)
(* seat_selection_agent.py / seat_prefernece_agent.py: one agent run       *)
(***************************************************************************)
SelectionMaxRow == 410   \* seat_selection_agent.py: result.row > 410
PreferenceMaxRow == 30   \* seat_prefernece_agent.py: result.row > 30

RowBound(v) ==
    IF v = "seat_selection_agent" THEN SelectionMaxRow ELSE PreferenceMaxRow

\* what the language model can answer: the arguments of a SeatPreference
\* (seat_type = NoText: not given), or a SeatSelectionFailed
SeatRows == {0, 1, 12, MaxRow, MaxRow + 1, SelectionMaxRow, SelectionMaxRow + 1}
SeatAnswerLetters == SeatLetters \cup {"G"}
SeatTypeArgs == {NoText, "window", "aisle", "middle"}

SeatAnswers ==
    {SeatSelectionFailed} \cup
    {[kind |-> "SeatPreference", row |-> r, seat |-> l, seat_type |-> t] :
        r \in SeatRows, l \in SeatAnswerLetters, t \in SeatTypeArgs}

SeatSupplied(raw) ==
    {"row", "seat"} \cup (IF raw.seat_type # NoText THEN {"seat_type"} ELSE {})

SeatAgentIdle ==
    /\ svariant = "seat_selection_agent"
    /\ sapc = "returned"
    /\ sraw = NoOutput
    /\ sobj = NoOutput
    /\ sretries = 0
    /\ sfinal = NoOutput

InitSeatAgent ==
    /\ svariant \in {"seat_selection_agent", "seat_prefernece_agent"}
    /\ sapc = "model"
    /\ sraw = NoOutput
    /\ sobj = NoOutput
    /\ sretries = 0
    /\ sfinal = NoOutput

\* a rejected answer: regenerate while the budget lasts, else the run raises
SeatRetryOneMore ==
    IF sretries < SeatRetries + 1
    THEN sretries' = sretries + 1 /\ sapc' = "model"
    ELSE sapc' = "raised" /\ UNCHANGED sretries

SeatRetry ==
    IF sretries < SeatRetries
    THEN sretries' = sretries + 1 /\ sapc' = "model"
    ELSE sapc' = "raised" /\ UNCHANGED sretries

\* the language model gives its answer
SeatModelAnswers ==
    /\ sapc = "model"
    /\ sraw' \in SeatAnswers
    /\ sapc' = "construct"
    /\ UNCHANGED <<svariant, sobj, sretries, sfinal>>
    /\ UNCHANGED outsideSeatAgent

\* the answer is built into SeatPreference | SeatSelectionFailed; arguments
\* the class turns down go back to the language model
SeatConstruct ==
    /\ sapc = "construct"
    /\ IF sraw.kind = "SeatSelectionFailed"
       THEN /\ sobj' = sraw
            /\ sapc' = "validate"
            /\ UNCHANGED sretries
       ELSE IF SeatPreferenceOk(SeatSupplied(sraw), sraw.row, sraw.seat)
       THEN /\ sobj' = MkSeat(sraw.row, sraw.seat)
            /\ sapc' = "validate"
            /\ UNCHANGED sretries
       ELSE /\ SeatRetry
            /\ UNCHANGED sobj
    /\ UNCHANGED <<svariant, sraw, sfinal>>
    /\ UNCHANGED outsideSeatAgent

\* validate_seat_selection
ValidateSeatSelection ==
    /\ sapc = "validate"
    /\ IF sobj.kind = "SeatSelectionFailed"
       THEN /\ sfinal' = sobj
            /\ sapc' = "returned"
            /\ UNCHANGED sretries
       ELSE IF sobj.row < 1 \/ sobj.row > RowBound(svariant)
       THEN SeatRetry /\ UNCHANGED sfinal
       ELSE IF sobj.seat \notin {"A", "B", "C", "D", "E", "F"}
       THEN SeatRetry /\ UNCHANGED sfinal
       ELSE /\ sfinal' = sobj
            /\ sapc' = "returned"
            /\ UNCHANGED sretries
    /\ UNCHANGED <<svariant, sraw, sobj>>
    /\ UNCHANGED outsideSeatAgent

NextSeatAgent ==
    \/ SeatModelAnswers
    \/ SeatConstruct
    \/ ValidateSeatSelection

(***************************************************************************)
(* kayak_tool.py: kayak_search_tool                                        *)
(***************************************************************************)
KayakCalls == 2          \* calls compared with each other

MkDate(y, m, d) == [y |-> y, m |-> m, d |-> d]

\* datetime.date values: single- and double-digit months and days
KayakDepartures == {MkDate(2025, 1, 5), MkDate(2025, 11, 21)}
KayakReturns == {None, MkDate(2025, 11, 21)}

\* FlightSearchRequest objects: return_date is None or not before
\* departure_date (validate_return_date)
KayakRequests ==
    {[origin |-> o, destination |-> d, departure_date |-> dep,
      return_date |-> ret, passengers |-> p, flight_class |-> c] :
        o \in {ADD, DXB}, d \in {ADD, DXB}, dep \in KayakDepartures,
        ret \in KayakReturns, p \in {1, 4}, c \in {"economy", "business"}}

DigitChar(n) == <<"0", "1", "2", "3", "4", "5", "6", "7", "8", "9">>[n + 1]

\* %m, %d: two digits, zero-padded
Pad2(n) == <<DigitChar(n \div 10), DigitChar(n % 10)>>

\* %Y for a four-digit year
Year4(y) ==
    <<DigitChar(y \div 1000), DigitChar((y \div 100) % 10),
      DigitChar((y \div 10) % 10), DigitChar(y % 10)>>

\* date.strftime("%Y-%m-%d")
Strftime(dt) == Year4(dt.y) \o <<"-">> \o Pad2(dt.m) \o <<"-">> \o Pad2(dt.d)

KayakSearchToolNoReturn(r) ==
    LET departure == Strftime(r.departure_date)
        url0 == <<"https://www.kayak.com/flights/">> \o r.origin \o <<"-">>
                  \o r.destination \o <<"/">> \o departure
    IN  url0 \o <<"?sort=bestflight_a&currency=USD">>

KayakSearchTool(r) ==
    LET departure == Strftime(r.departure_date)
        return_date == IF r.return_date # None THEN Strftime(r.return_date)
                       ELSE <<>>
        url0 == <<"https://www.kayak.com/flights/">> \o r.origin \o <<"-">>
                  \o r.destination \o <<"/">> \o departure
        url1 == IF return_date # <<>> THEN url0 \o <<"/">> \o return_date
                ELSE url0
    IN  url1 \o <<"?sort=bestflight_a&currency=USD">>

KayakIdle ==
    /\ kreqs = <<>>
    /\ kurls = <<>>

InitKayak ==
    /\ kreqs \in [1..KayakCalls -> KayakRequests]
    /\ kurls = <<>>

\* one call of the tool
KayakCall ==
    /\ Len(kurls) < Len(kreqs)
    /\ kurls' = Append(kurls, KayakSearchTool(kreqs[Len(kurls) + 1]))
    /\ UNCHANGED kreqs
    /\ UNCHANGED outsideKayak

NextKayak == KayakCall

(***************************************************************************)
(* apify_browser.py: apify_browser_tool                                    *)
(***************************************************************************)
MaxPolls == 20

Http(code, body) == [kind |-> "http", code |-> code, body |-> body]
RequestRaises(type) == [kind |-> "exc", type |-> type]

RequestExceptions == {"Timeout", "ConnectionError", "Exception"}

\* str(response.status_code)
CodeText(code) ==
    CASE code = 200 -> "200"
      [] code = 201 -> "201"
      [] code = 404 -> "404"
      [] code = 500 -> "500"

\* answers to the run-start POST: status code, whether the JSON body holds
\* data.id, and response.text
PostAnswers ==
    { Http(200, [hasId |-> TRUE, text |-> <<"run-123">>]),
      Http(200, [hasId |-> FALSE, text |-> <<>>]),
      Http(201, [hasId |-> TRUE, text |-> <<"run-123">>]),
      Http(404, [hasId |-> FALSE, text |-> <<"error", "page-not-found">>]),
      Http(500, [hasId |-> FALSE, text |-> <<>>]) }
    \cup {RequestRaises(t) : t \in RequestExceptions}

StatusBody(st, ds, msg) ==
    [status |-> st, hasDataset |-> ds, statusMessage |-> msg]

Running == Http(200, StatusBody("RUNNING", TRUE, <<>>))

\* answers to a status poll other than RUNNING (status NoText: the body
\* holds no data.status)
PollAnswers ==
    { Http(200, StatusBody("SUCCEEDED", TRUE, <<>>)),
      Http(200, StatusBody("SUCCEEDED", FALSE, <<>>)),
      Http(200, StatusBody("FAILED", TRUE, <<>>)),
      Http(200, StatusBody("FAILED", TRUE, <<"actor", "crashed">>)),
      Http(200, StatusBody("ABORTED", TRUE, <<>>)),
      Http(200, StatusBody("TIMED_OUT", TRUE, <<>>)),
      Http(200, StatusBody(NoText, TRUE, <<>>)),
      Http(500, StatusBody(NoText, FALSE, <<>>)) }
    \cup {RequestRaises(t) : t \in RequestExceptions}

\* how many polls are answered RUNNING before the run's last answer;
\* MaxPolls of them: every poll the tool makes is answered RUNNING
PollDelays == {0, 1, MaxPolls - 1, MaxPolls}

PageHtml == <<"<html>", "<body>", "fare", "flights", "</body>", "</html>">>

Item(has, h, pageContent) ==
    [has |-> has, html |-> h, pageContent |-> pageContent]

\* JSON bodies of the dataset GET: a list of items, or an object
DatasetBodies ==
    { [shape |-> "list", items |-> <<>>],
      [shape |-> "list", items |-> <<Item({"html"}, PageHtml, <<>>)>>],
      [shape |-> "list", items |-> <<Item({"pageContent"}, <<>>, PageHtml)>>],
      [shape |-> "list", items |-> <<Item({}, <<>>, <<>>)>>],
      [shape |-> "list",
       items |-> <<Item({"html", "pageContent"}, <<>>, PageHtml)>>],
      [shape |-> "dict", items |-> <<>>] }

DatasetAnswers ==
    {Http(200, b) : b \in DatasetBodies}
    \cup {Http(500, [shape |-> "list", items |-> <<>>])}
    \cup {RequestRaises(t) : t \in RequestExceptions}

IsTag(w) == w \in {"<html>", "</html>", "<body>", "</body>"}

\* html2text(html): the markup goes, the text is closed with blank lines
Html2Text(h) ==
    LET text == SelectSeq(h, LAMBDA w : ~IsTag(w))
    IN  IF text = <<>> THEN <<"\n\n">> ELSE text \o <<"\n\n">>

\* first_item.get("html", first_item.get("pageContent", ""))
ItemHtml(item) ==
    IF "html" \in item.has THEN item.html
    ELSE IF "pageContent" \in item.has THEN item.pageContent
    ELSE <<>>

\* the except clauses, lines 137-151
ExceptMessage(type) ==
    CASE type = "Timeout" -> <<"Apify", "request", "timeout">>
      [] type = "ConnectionError" -> <<"Apify", "connection", "error">>
      [] OTHER -> <<"Apify", "error", ":", type>>

\* `if not settings.APIFY_API_TOKEN`
TokenMissingNoneOnly(t) == t = NoText

TokenMissing(t) == t \in {NoText, ""}

\* the for loop has iterations left
PollsLeftOneMore(n) == n < MaxPolls + 1

PollsLeft(n) == n < MaxPolls

\* `if run_status != "SUCCEEDED"`
RunFailedOnlyFailed(st) == st = "FAILED"

RunFailed(st) == st # "SUCCEEDED"

ApifyIdle ==
    /\ token = NoText
    /\ envPost = RequestRaises("Exception")
    /\ envDelay = 0
    /\ envTerminal = RequestRaises("Exception")
    /\ envDataset = RequestRaises("Exception")
    /\ tpc = "returned"
    /\ posts = 0
    /\ gets = 0
    /\ polls = 0
    /\ run_status = NoText
    /\ status_data = StatusBody(NoText, FALSE, <<>>)
    /\ tresult = <<>>
    /\ tsuccess = FALSE
    /\ traised = NoText

InitApify ==
    /\ token \in {NoText, "", "test-token-123"}
    /\ envPost \in PostAnswers
    /\ envDelay \in PollDelays
    /\ envTerminal \in PollAnswers
    /\ envDataset \in DatasetAnswers
    /\ tpc = "start"
    /\ posts = 0
    /\ gets = 0
    /\ polls = 0
    /\ run_status = NoText
    /\ status_data = StatusBody(NoText, FALSE, <<>>)
    /\ tresult = <<>>
    /\ tsuccess = FALSE
    /\ traised = NoText

\* `return error_msg`
ApifyReturn(msg) ==
    /\ tresult' = msg
    /\ tpc' = "returned"

\* lines 14-17
ApifyCheckToken ==
    /\ tpc = "start"
    /\ IF TokenMissing(token)
       THEN /\ tpc' = "raised"
            /\ traised' = "APIFY_API_TOKEN is not set"
       ELSE /\ tpc' = "post"
            /\ UNCHANGED traised
    /\ UNCHANGED <<apifyEnv, posts, gets, polls, run_status, status_data,
                   tresult, tsuccess>>
    /\ UNCHANGED outsideApify

\* lines 28-50: the run-start POST, the status test, run["data"]["id"]
ApifyStartRun ==
    /\ tpc = "post"
    /\ posts' = posts + 1
    /\ IF envPost.kind = "exc" THEN ApifyReturn(ExceptMessage(envPost.type))
       ELSE IF envPost.code # 200
       THEN ApifyReturn(<<"Apify", "API", "returned", "status",
                          CodeText(envPost.code), ":">> \o envPost.body.text)
       ELSE IF ~envPost.body.hasId THEN ApifyReturn(ExceptMessage("KeyError"))
       ELSE tpc' = "poll" /\ UNCHANGED tresult
    /\ UNCHANGED <<apifyEnv, gets, polls, run_status, status_data, tsuccess,
                   traised>>
    /\ UNCHANGED outsideApify

\* lines 57-82: one iteration of the polling loop
ApifyPoll ==
    /\ tpc = "poll"
    /\ PollsLeft(polls)
    /\ polls' = polls + 1
    /\ gets' = gets + 1
    /\ LET answer == IF polls + 1 <= envDelay THEN Running ELSE envTerminal
       IN  IF answer.kind = "exc"
           THEN /\ ApifyReturn(ExceptMessage(answer.type))
                /\ UNCHANGED <<run_status, status_data>>
           ELSE IF answer.code # 200
           THEN /\ ApifyReturn(<<"Status", "check", "failed", ":",
                                 CodeText(answer.code)>>)
                /\ UNCHANGED <<run_status, status_data>>
           ELSE IF answer.body.status = NoText
           THEN /\ ApifyReturn(ExceptMessage("KeyError"))
                /\ UNCHANGED <<run_status, status_data>>
           ELSE /\ run_status' = answer.body.status
                /\ status_data' = answer.body
                /\ tpc' = IF answer.body.status \in
                               {"SUCCEEDED", "FAILED", "ABORTED", "TIMED_OUT"}
                          THEN "finished" ELSE "poll"
                /\ UNCHANGED tresult
    /\ UNCHANGED <<apifyEnv, posts, tsuccess, traised>>
    /\ UNCHANGED outsideApify

\* lines 83-86: the loop ran out without a break
ApifyPollCap ==
    /\ tpc = "poll"
    /\ ~PollsLeft(polls)
    /\ ApifyReturn(<<"Max", "polling", "attempts", "reached", ".", "Last",
                     "status", ":", run_status>>)
    /\ UNCHANGED <<apifyEnv, posts, gets, polls, run_status, status_data,
                   tsuccess, traised>>
    /\ UNCHANGED outsideApify

\* lines 88-96: the test of the final status, then defaultDatasetId
ApifyAfterPoll ==
    /\ tpc = "finished"
    /\ IF RunFailed(run_status)
       THEN ApifyReturn(<<"Apify", "run", "failed", ":", run_status>> \o
                        (IF status_data.statusMessage # <<>>
                         THEN <<"-">> \o status_data.statusMessage ELSE <<>>))
       ELSE IF ~status_data.hasDataset
       THEN ApifyReturn(ExceptMessage("KeyError"))
       ELSE tpc' = "dataset" /\ UNCHANGED tresult
    /\ UNCHANGED <<apifyEnv, posts, gets, polls, run_status, status_data,
                   tsuccess, traised>>
    /\ UNCHANGED outsideApify

\* lines 99-135: the dataset GET and the conversion of the first item
ApifyDataset ==
    /\ tpc = "dataset"
    /\ gets' = gets + 1
    /\ IF envDataset.kind = "exc"
       THEN ApifyReturn(ExceptMessage(envDataset.type)) /\ UNCHANGED tsuccess
       ELSE IF envDataset.code # 200
       THEN /\ ApifyReturn(<<"Failed", "to", "get", "dataset", ":",
                             CodeText(envDataset.code)>>)
            /\ UNCHANGED tsuccess
       ELSE IF envDataset.body.shape = "dict"
       \* a non-empty object is truthy and items[0] raises KeyError
       THEN ApifyReturn(ExceptMessage("KeyError")) /\ UNCHANGED tsuccess
       ELSE IF envDataset.body.items = <<>>
       THEN /\ ApifyReturn(<<"No", "content", "extracted", "from", "Apify", ".">>)
            /\ UNCHANGED tsuccess
       ELSE LET content == ItemHtml(envDataset.body.items[1])
            IN  IF content = <<>>
                THEN /\ ApifyReturn(<<"No", "HTML", "content", "in", "response">>)
                     /\ UNCHANGED tsuccess
                ELSE /\ ApifyReturn(Html2Text(content))
                     /\ tsuccess' = TRUE
    /\ UNCHANGED <<apifyEnv, posts, polls, run_status, status_data, traised>>
    /\ UNCHANGED outsideApify

NextApify ==
    \/ ApifyCheckToken
    \/ ApifyStartRun
    \/ ApifyPoll
    \/ ApifyPollCap
    \/ ApifyAfterPoll
    \/ ApifyDataset

\* one machine runs; the others rest in their returned state
(***************************************************************************)
(* booking_services.py: quick_booking                                      *)
(***************************************************************************)
DefaultSeatRetries == 3  \* max_seat_retries: int = 3

IsDigit(c) == \E n \in 0..9 : DigitChar(n) = c

DigitValue(c) == CHOOSE n \in 0..9 : DigitChar(n) = c

AllDigits(s) == \A i \in DOMAIN s : IsDigit(s[i])

RECURSIVE NumberValue(_)
NumberValue(s) ==
    IF s = <<>> THEN 0
    ELSE 10 * NumberValue(SubSeq(s, 1, Len(s) - 1)) + DigitValue(s[Len(s)])

IsLeap(y) == (y % 4 = 0 /\ y % 100 # 0) \/ y % 400 = 0

DaysInMonth(y, m) ==
    IF m = 2 THEN (IF IsLeap(y) THEN 29 ELSE 28)
    ELSE IF m \in {4, 6, 9, 11} THEN 30 ELSE 31

ValueError == [kind |-> "ValueError"]

\* datetime.strptime(s, "%Y-%m-%d").date(): %Y is four digits, %m and %d
\* are one or two digits (%d also a blank and a digit), the whole string
\* must be consumed, and the fields must name a day of the calendar
StrptimeDate(s) ==
    LET dashes == {i \in DOMAIN s : s[i] = "-"}
    IN  IF Cardinality(dashes) # 2 THEN ValueError
        ELSE LET i == CHOOSE k \in dashes : \A l \in dashes : k <= l
                 j == CHOOSE k \in dashes : \A l \in dashes : k >= l
                 ys == SubSeq(s, 1, i - 1)
                 ms == SubSeq(s, i + 1, j - 1)
                 dd == SubSeq(s, j + 1, Len(s))
                 ds == IF Len(dd) = 2 /\ dd[1] = " " THEN SubSeq(dd, 2, 2) ELSE dd
             IN  IF /\ Len(ys) = 4 /\ AllDigits(ys)
                    /\ Len(ms) \in {1, 2} /\ AllDigits(ms)
                    /\ Len(ds) \in {1, 2} /\ AllDigits(ds)
                    /\ NumberValue(ys) >= 1
                    /\ NumberValue(ms) \in 1..12
                    /\ NumberValue(ds) \in 1..31
                    /\ NumberValue(ds) <= DaysInMonth(NumberValue(ys), NumberValue(ms))
                 THEN MkDate(NumberValue(ys), NumberValue(ms), NumberValue(ds))
                 ELSE ValueError

\* the requests of this model carry their dates as day numbers: day 1 is
\* 2025-01-05
DayNumber(dt) == (dt.y - 2025) * 372 + (dt.m - 1) * 31 + dt.d - 4

\* departure_date arguments: texts, and one value that already is a date
QuickDates ==
    {[isStr |-> TRUE, text |-> t, date |-> None] :
        t \in {<<"2", "0", "2", "5", "-", "0", "1", "-", "0", "5">>,
                <<"2", "0", "2", "5", "-", "1", "-", "5">>,
                <<"0", "5", "/", "0", "1", "/", "2", "0", "2", "5">>,
                <<"2", "0", "2", "5", "-", "0", "2", "-", "3", "0">>,
                <<>>}}
    \cup {[isStr |-> FALSE, text |-> <<>>, date |-> MkDate(2025, 1, 6)]}

QuickOrigins == {<<"a", "d", "d">>, ADD, <<"A", "D">>}

FlightClasses == {"economy", "premium_economy", "business", "first"}

QuickClasses == {"economy", "luxury"}

QuickInputs ==
    [origin : QuickOrigins, destination : {DXB}, departure_date : QuickDates,
     passengers : {1}, flight_class : QuickClasses]

QuickIdle == qin = None


\* quick_booking is entered with the workflow's own state not yet built
InitQuick ==
    /\ usageHasTotal \in BOOLEAN
    /\ qin \in QuickInputs
    /\ wreq = None
    /\ available_flights \in FlightLists
    /\ seat_prompt \in Prompts
    /\ max_attempts = DefaultSeatRetries
    /\ wpc = "quick"
    /\ wflight = None
    /\ attempt = 1
    /\ seatLog = <<>>
    /\ history = <<>>
    /\ callerHistory = <<>>
    /\ usageRequests = 0
    /\ selectOutcome = None
    /\ purchase = None
    /\ errorSeen = FALSE
    /\ wsteps = <<>>
    /\ wresult = None

\* quick_booking up to its call of complete_booking_workflow
QuickBooking ==
    /\ wpc = "quick"
    /\ LET arg == qin.departure_date
           parsed == IF arg.isStr THEN StrptimeDate(arg.text) ELSE arg.date
       IN  IF parsed = ValueError
           THEN /\ ErrorResult("Invalid date format")
                /\ UNCHANGED wreq
           ELSE IF /\ FlightSearchRequestOk({"origin", "destination", "departure_date",
                                             "passengers", "flight_class"},
                                            Upper(qin.origin), Upper(qin.destination),
                                            DayNumber(parsed))
                   /\ qin.flight_class \in FlightClasses
           THEN /\ wreq' = MkRequest(Upper(qin.origin), Upper(qin.destination),
                                     DayNumber(parsed), qin.passengers)
                /\ wpc' = "search"
                /\ UNCHANGED wresult
           ELSE \* the construction error leaves quick_booking
                /\ wpc' = "raised"
                /\ UNCHANGED <<wreq, wresult>>
    /\ UNCHANGED <<usageHasTotal, available_flights, seat_prompt, max_attempts, wflight,
                   attempt, seatLog, history, callerHistory, usageRequests, selectOutcome,
                   purchase,
                   errorSeen, wsteps, qin>>
    /\ UNCHANGED outsideQuick

NextQuick ==
    \/ QuickBooking
    \/ WorkflowSearch
    \/ SeatAttempt
    \/ SeatFallback
    \/ BuyTickets
    \/ AssembleResult

(***************************************************************************)
(* summarize_services.py: generate_flight_summary                          *)
(***************************************************************************)
\* FlightDetails.stops: int = Field(default=0, ge=0)
WithStops(f, n) == [stops |-> n] @@ f

SummaryPool == {WithStops(f, n) : f \in FlightPool, n \in {0, 1}}

SummaryLists == UNION {[1..n -> SummaryPool] : n \in 0..MaxFlights}

\* min(flights, key=lambda x: x.price): the first flight of minimal price
MinByPrice(fs) ==
    fs[CHOOSE i \in DOMAIN fs :
         /\ \A j \in DOMAIN fs : fs[i].price <= fs[j].price
         /\ \A j \in 1..(i - 1) : fs[j].price > fs[i].price]

\* len([f for f in flights if f.stops == 0])
DirectCount(fs) == Cardinality({i \in DOMAIN fs : fs[i].stops = 0})

\* _create_empty_summary
EmptySummary(r) ==
    [kind |-> "empty", search_criteria |-> r, total_flights |-> 0,
     airlines |-> {}, direct_flights |-> 0, connecting_flights |-> 0,
     best_deal |-> None, best_timing |-> None]

\* the dictionary _create_fallback_summary builds for a non-empty list
FallbackSummary(r, fs) ==
    [kind |-> "fallback", search_criteria |-> r, total_flights |-> Len(fs),
     airlines |-> {fs[i].airline : i \in DOMAIN fs},
     direct_flights |-> DirectCount(fs),
     connecting_flights |-> Len(fs) - DirectCount(fs),
     best_deal |-> MinByPrice(fs), best_timing |-> fs[1]]

\* the FlightSummary fields a Summarization Agent answer carries
AgentSummaries ==
    [direct_flights : {0, 1}, connecting_flights : {0, 1},
     best_deal : {None} \cup SummaryPool, best_timing : {None}]

\* _format_summary_result
FormattedSummary(r, total, data) ==
    [kind |-> "agent", search_criteria |-> r, total_flights |-> total,
     airlines |-> {}, direct_flights |-> data.direct_flights,
     connecting_flights |-> data.connecting_flights,
     best_deal |-> data.best_deal, best_timing |-> data.best_timing]

SummaryIdle ==
    /\ sumReq = None
    /\ sumFlights = <<>>
    /\ sumPc = "returned"
    /\ sumAgent = "none"
    /\ sumResult = None

InitSummary ==
    /\ usageHasTotal \in BOOLEAN
    /\ sumReq \in Requests
    /\ sumFlights \in SummaryLists
    /\ sumPc = "run"
    /\ sumAgent = "none"
    /\ sumResult = None

\* generate_flight_summary lines 35-56: the empty check and the agent run
SummarizeRun ==
    /\ sumPc = "run"
    /\ IF sumFlights = <<>>
       THEN /\ sumResult' = EmptySummary(sumReq)
            /\ sumPc' = "returned"
            /\ UNCHANGED sumAgent
       ELSE \/ /\ sumAgent' = "raised"
               /\ sumPc' = "fallback"
               /\ UNCHANGED sumResult
            \/ \E data \in AgentSummaries :
                 /\ sumAgent' = "answered"
                 /\ sumResult' = FormattedSummary(sumReq, Len(sumFlights), data)
                 /\ sumPc' = "format"
    /\ UNCHANGED <<usageHasTotal, sumReq, sumFlights>>
    /\ UNCHANGED outsideSummary

\* _format_summary_result ends with _get_usage_stats(usage); when that
\* raises, the except clause of generate_flight_summary takes over
SummarizeFormat ==
    /\ sumPc = "format"
    /\ IF GetUsageStatsOk
       THEN /\ sumPc' = "returned"
            /\ UNCHANGED sumResult
       ELSE /\ sumPc' = "fallback"
            /\ sumResult' = None
    /\ UNCHANGED <<usageHasTotal, sumReq, sumFlights, sumAgent>>
    /\ UNCHANGED outsideSummary

\* _create_fallback_summary, called from the except clause
SummarizeFallback ==
    /\ sumPc = "fallback"
    /\ IF GetUsageStatsOk
       THEN /\ sumResult' = FallbackSummary(sumReq, sumFlights)
            /\ sumPc' = "returned"
       ELSE /\ sumPc' = "raised"
            /\ UNCHANGED sumResult
    /\ UNCHANGED <<usageHasTotal, sumReq, sumFlights, sumAgent>>
    /\ UNCHANGED outsideSummary

NextSummary ==
    \/ SummarizeRun
    \/ SummarizeFormat
    \/ SummarizeFallback

(***************************************************************************)
(* browserbase_tool.py: browserbase_tool                                   *)
(***************************************************************************)
\* `not settings.X` for an optional text: None or the empty text
Absent(v) == v \in {NoText, ""}

BrowserbaseEnvs ==
    [create : BOOLEAN, connect : BOOLEAN, goto : BOOLEAN, close : BOOLEAN,
     page : {PageHtml, <<"<html>", "</html>">>}]

BrowserbaseIdle ==
    /\ bbKey = NoText
    /\ bbProject = NoText
    /\ bbEnv = None
    /\ bbPc = "returned"
    /\ bbNet = 0
    /\ bbErrors = {}
    /\ bbPending = <<>>
    /\ bbResult = <<>>

InitBrowserbase ==
    /\ bbKey \in {NoText, "", "bb_live_key"}
    /\ bbProject \in {NoText, "", "project-1"}
    /\ bbEnv \in BrowserbaseEnvs
    /\ bbPc = "check"
    /\ bbNet = 0
    /\ bbErrors = {}
    /\ bbPending = <<>>
    /\ bbResult = <<>>

\* the outer `except Exception as e: return f"Error creating ..."`
SessionError(call) ==
    /\ bbErrors' = bbErrors \cup {call}
    /\ bbResult' = <<"Error", "creating", "Browserbase", "session:", call>>
    /\ bbPc' = "returned"

\* lines 9-10 and 14: the key check and the client object
BrowserbaseCheck ==
    /\ bbPc = "check"
    /\ bbPc' = IF Absent(bbKey) THEN "raised" ELSE "create"
    /\ UNCHANGED <<bbKey, bbProject, bbEnv, bbNet, bbErrors, bbPending, bbResult>>
    /\ UNCHANGED outsideBrowserbase

\* bb.sessions.create(project_id=settings.BROWSERBASE_PROJECT_ID): the
\* project identifier goes to the service as it is, absent or not
BrowserbaseCreate ==
    /\ bbPc = "create"
    /\ bbNet' = bbNet + 1
    /\ IF bbEnv.create
       THEN SessionError("create")
       ELSE /\ bbPc' = "connect"
            /\ UNCHANGED <<bbErrors, bbResult>>
    /\ UNCHANGED <<bbKey, bbProject, bbEnv, bbPending>>
    /\ UNCHANGED outsideBrowserbase

\* chromium.connect_over_cdp(session.connect_url), contexts[0], pages[0]
BrowserbaseConnect ==
    /\ bbPc = "connect"
    /\ bbNet' = bbNet + 1
    /\ IF bbEnv.connect
       THEN SessionError("connect")
       ELSE /\ bbPc' = "page"
            /\ UNCHANGED <<bbErrors, bbResult>>
    /\ UNCHANGED <<bbKey, bbProject, bbEnv, bbPending>>
    /\ UNCHANGED outsideBrowserbase

\* the inner try block: page.goto, sleep, html2text(page.content())
BrowserbasePage ==
    /\ bbPc = "page"
    /\ bbNet' = bbNet + 1
    /\ IF bbEnv.goto
       THEN /\ bbErrors' = bbErrors \cup {"goto"}
            /\ bbPending' = <<"Error", "loading", "page:", "goto">>
       ELSE /\ bbPending' = Html2Text(bbEnv.page)
            /\ UNCHANGED bbErrors
    /\ bbPc' = "cleanup"
    /\ UNCHANGED <<bbKey, bbProject, bbEnv, bbResult>>
    /\ UNCHANGED outsideBrowserbase

\* finally: page.close(); browser.close().  An exception raised here
\* replaces the pending return value and reaches the outer except clause
BrowserbaseCleanup ==
    /\ bbPc = "cleanup"
    /\ IF bbEnv.close
       THEN SessionError("close")
       ELSE /\ bbResult' = bbPending
            /\ bbPc' = "returned"
            /\ UNCHANGED bbErrors
    /\ UNCHANGED <<bbKey, bbProject, bbEnv, bbNet, bbPending>>
    /\ UNCHANGED outsideBrowserbase

NextBrowserbase ==
    \/ BrowserbaseCheck
    \/ BrowserbaseCreate
    \/ BrowserbaseConnect
    \/ BrowserbasePage
    \/ BrowserbaseCleanup

(***************************************************************************)
(* main.py: main_application_flow, the booking tab                         *)
(***************************************************************************)
ConsoleInputs ==
    [origin : {<<>>, ADD, <<"a", "d", "d">>}, destination : {<<>>, DXB},
     departure_date : {1, 2}, seat_preference : Prompts]

\* FlightSearchResult.best_value_flight: FlightDetails | None = None, a
\* field the language model fills in or leaves out
WithBestValue(result, bv) == [best_value_flight |-> bv] @@ result

\* flight_search_agent.run(...).data: the run raises, or it yields a value
\* of the agent's output type, FlightSearchResult | NoFlightFound, whose
\* flights match the request.  (With lines 172-180 of the validator as they
\* stand a FlightSearchResult does not get through, see ValidateSearchAgent;
\* the console is modelled against the agent's declared output.)
ConsoleSearchResults(r) ==
    {Exception("agent"), ModelNoFlight} \cup
    {WithBestValue(res, bv) :
        res \in AgentRunResults(r) \ {ModelNoFlight},
        bv \in {None} \cup FlightPool}

ConsoleIdle ==
    /\ cin = None
    /\ cpc = "done"
    /\ csearch = None
    /\ cdeps = None
    /\ cshown = "nothing"

InitConsole ==
    /\ cin \in ConsoleInputs
    /\ cpc = "submit"
    /\ csearch = None
    /\ cdeps = None
    /\ cshown = "nothing"

\* except Exception as e: st.error(f"Booking failed: ...")
ConsoleFailed ==
    /\ cshown' = "Booking failed"
    /\ cpc' = "done"

\* lines 226-235: the button, the airport code test, the request
ConsoleSubmit ==
    /\ cpc = "submit"
    /\ IF cin.origin = <<>> \/ cin.destination = <<>>
       THEN /\ cshown' = "Please enter both airport codes"
            /\ cpc' = "done"
       ELSE IF FlightSearchRequestOk({"origin", "destination", "departure_date",
                                      "passengers", "flight_class"},
                                     cin.origin, cin.destination, cin.departure_date)
       THEN /\ cpc' = "search"
            /\ UNCHANGED cshown
       ELSE ConsoleFailed
    /\ UNCHANGED <<cin, csearch, cdeps>>
    /\ UNCHANGED outsideConsole

\* lines 238-241: the Flight Search Agent run
ConsoleSearch ==
    /\ cpc = "search"
    /\ \E r \in ConsoleSearchResults(MkRequest(cin.origin, cin.destination,
                                                cin.departure_date, 1)) :
         IF r.kind = "exception"
         THEN ConsoleFailed /\ UNCHANGED csearch
         ELSE /\ csearch' = r
              /\ cpc' = "select"
              /\ UNCHANGED cshown
    /\ UNCHANGED <<cin, cdeps>>
    /\ UNCHANGED outsideConsole

\* lines 244-258: the NoFlightFound exit, the type and emptiness test, and
\* best_flight = search_result.data.best_value_flight
ConsoleSelect ==
    /\ cpc = "select"
    /\ IF csearch.kind = "NoFlightFound"
       THEN /\ cshown' = csearch.message
            /\ cpc' = "done"
            /\ UNCHANGED cdeps
       ELSE IF csearch.kind # "FlightSearchResult" \/ csearch.flights = <<>>
       THEN /\ cshown' = "Unexpected error: No flights found"
            /\ cpc' = "done"
            /\ UNCHANGED cdeps
       ELSE /\ cdeps' = [kind |-> "BookingDeps",
                         selected_flight |-> csearch.best_value_flight,
                         seat_preference_prompt |-> cin.seat_preference]
            /\ cpc' = "book"
            /\ UNCHANGED cshown
    /\ UNCHANGED <<cin, csearch>>
    /\ UNCHANGED outsideConsole

\* lines 266-288: the Booking Agent run and the confirmation view.
\* process_booking reads flight.price of the selected flight
ConsoleBook ==
    /\ cpc = "book"
    /\ \/ ConsoleFailed
       \/ /\ cdeps.selected_flight # None
          /\ cshown' = "Booking Confirmed!"
          /\ cpc' = "done"
    /\ UNCHANGED <<cin, csearch, cdeps>>
    /\ UNCHANGED outsideConsole

NextConsole ==
    \/ ConsoleSubmit
    \/ ConsoleSearch
    \/ ConsoleSelect
    \/ ConsoleBook

ServicesIdle == QuickIdle /\ SummaryIdle /\ BrowserbaseIdle /\ ConsoleIdle

ToolsIdle == SeatAgentIdle /\ KayakIdle /\ ApifyIdle /\ ServicesIdle

CoreIdle ==
    AgentIdle /\ SearchIdle /\ BookingIdle /\ BookingAgentIdle /\ usageHasTotal = TRUE

InitSpecAgent ==
    /\ InitAgent /\ SearchIdle /\ BookingIdle /\ BookingAgentIdle
    /\ usageHasTotal = TRUE /\ ToolsIdle

InitSpecSearch ==
    InitSearch /\ AgentIdle /\ BookingIdle /\ BookingAgentIdle /\ ToolsIdle

InitSpecBooking ==
    InitBooking /\ AgentIdle /\ SearchIdle /\ BookingAgentIdle /\ ToolsIdle

InitSpecBookingAgent ==
    /\ InitBookingAgent /\ AgentIdle /\ SearchIdle /\ BookingIdle
    /\ usageHasTotal = TRUE /\ ToolsIdle

InitSpecSeatAgent ==
    InitSeatAgent /\ CoreIdle /\ KayakIdle /\ ApifyIdle /\ ServicesIdle

InitSpecKayak == InitKayak /\ CoreIdle /\ SeatAgentIdle /\ ApifyIdle /\ ServicesIdle

InitSpecApify == InitApify /\ CoreIdle /\ SeatAgentIdle /\ KayakIdle /\ ServicesIdle

InitSpecQuick ==
    /\ InitQuick /\ AgentIdle /\ SearchIdle /\ BookingAgentIdle
    /\ SeatAgentIdle /\ KayakIdle /\ ApifyIdle /\ SummaryIdle /\ BrowserbaseIdle
    /\ ConsoleIdle

InitSpecSummary ==
    /\ InitSummary /\ AgentIdle /\ SearchIdle /\ BookingIdle /\ BookingAgentIdle
    /\ SeatAgentIdle /\ KayakIdle /\ ApifyIdle /\ QuickIdle /\ BrowserbaseIdle
    /\ ConsoleIdle

InitSpecBrowserbase ==
    /\ InitBrowserbase /\ CoreIdle
    /\ SeatAgentIdle /\ KayakIdle /\ ApifyIdle /\ QuickIdle /\ SummaryIdle
    /\ ConsoleIdle

InitSpecConsole ==
    /\ InitConsole /\ CoreIdle
    /\ SeatAgentIdle /\ KayakIdle /\ ApifyIdle /\ QuickIdle /\ SummaryIdle
    /\ BrowserbaseIdle

SpecAgent == InitSpecAgent /\ [][NextAgent]_vars

SpecSearch == InitSpecSearch /\ [][NextSearch]_vars

SpecBooking == InitSpecBooking /\ [][NextBooking]_vars

SpecBookingAgent == InitSpecBookingAgent /\ [][NextBookingAgent]_vars

SpecSeatAgent == InitSpecSeatAgent /\ [][NextSeatAgent]_vars

SpecKayak == InitSpecKayak /\ [][NextKayak]_vars

SpecApify == InitSpecApify /\ [][NextApify]_vars

SpecQuick == InitSpecQuick /\ [][NextQuick]_vars

SpecSummary == InitSpecSummary /\ [][NextSummary]_vars

SpecBrowserbase == InitSpecBrowserbase /\ [][NextBrowserbase]_vars

SpecConsole == InitSpecConsole /\ [][NextConsole]_vars

\* every request returns and the interpreter keeps running the tool
SpecApifyFair == SpecApify /\ WF_vars(NextApify)

(***************************************************************************)
(* Properties                                                              *)
(***************************************************************************)

\* C1: a FlightSearchResult the Flight Search Agent returns holds only
\* flights whose origin and destination equal the request's, compared
\* case-insensitively, and whose date is the request's departure_date.
C1_ReturnedFlightsMatchRequest ==
    (apc = "returned" /\ final.kind = "FlightSearchResult") =>
        \A i \in DOMAIN final.flights :
            /\ Upper(final.flights[i].origin) = Upper(req.origin)
            /\ Upper(final.flights[i].destination) = Upper(req.destination)
            /\ final.flights[i].date = req.departure_date

\* a result with flights is returned after the validator turned down an
\* earlier answer
C1_Witness ==
    /\ apc = "returned"
    /\ final.kind = "FlightSearchResult"
    /\ Len(final.flights) >= 1
    /\ retriesUsed >= 1

\* C2: search_flights never lets an exception escape: when a pipeline step
\* raised, the call returns the NoFlightFound "An error occurred during
\* flight search." with its two suggestions.
C2_SearchFlightsNeverRaises ==
    \A i \in DOMAIN task :
        task[i].pc = "done" =>
            /\ task[i].outcome.kind # "exception"
            /\ task[i].raisedAt # NoText =>
                 task[i].outcome = MkNoFlight(SearchErrorMessage, SearchErrorSuggestions)

\* C3: when one search of a batch of N raises internally, the batch returns
\* N results: a NoFlightFound for the failing entry, and for every other
\* entry the result of its own search.
C3_BatchIsolatesFailure ==
    LET failing == {i \in DOMAIN task : task[i].raisedAt # NoText}
    IN  (/\ \A i \in DOMAIN task : task[i].pc = "done"
         /\ batchPc # "gather"
         /\ failing # {}) =>
            /\ batchPc = "returned"
            /\ Len(processed) = Len(sreqs)
            /\ \A i \in DOMAIN processed :
                 IF i \in failing
                 THEN processed[i].kind = "NoFlightFound"
                 ELSE processed[i] = task[i].outcome

\* C4: complete_booking_workflow never raises: an exception at any step
\* ends the run with the error result (status "error", with reason,
\* usage_stats and timestamp).
C4_WorkflowNeverRaises ==
    /\ wpc # "raised"
    /\ (wpc = "returned" /\ errorSeen) =>
         /\ wresult.status = "error"
         /\ {"reason", "usage_stats", "timestamp"} \subseteq DOMAIN wresult

\* C5: select_seat_with_retry always ends by returning a SeatPreference,
\* and when every one of the max_attempts attempts failed the seat is
\* row 10, seat C.
C5_FallbackSeatReturned ==
    LET ended == seatLog # <<>> /\ wpc \notin {"select", "fallback"}
        allFailed == /\ Len(seatLog) = max_attempts
                     /\ \A k \in DOMAIN seatLog : seatLog[k].seat = None
    IN  ended =>
          /\ selectOutcome.kind = "SeatPreference"
          /\ allFailed => (selectOutcome.row = 10 /\ selectOutcome.seat = "C")

\* C6: select_seat_with_retry calls the Seat Selection Agent at most
\* max_attempts times and stops at the first attempt that yields a
\* SeatPreference: that seat is returned and no later attempt is made.
C6_StopsAtFirstSeat ==
    /\ Len(seatLog) <= max_attempts
    /\ Cardinality({k \in DOMAIN seatLog : seatLog[k].called}) <= max_attempts
    /\ \A k \in DOMAIN seatLog :
         seatLog[k].seat # None =>
            /\ k = Len(seatLog)
            /\ selectOutcome = seatLog[k].seat
            /\ wpc \notin {"select", "fallback"}

\* the second of three attempts produced the seat, after a first attempt
\* that did call the agent
C6_Witness ==
    /\ max_attempts = 3
    /\ Len(seatLog) = 2
    /\ seatLog[1].called
    /\ seatLog[2].seat # None
    /\ selectOutcome = seatLog[2].seat
    /\ wpc \in {"buy", "assemble", "returned"}

\* C7: a BookingConfirmation produced by process_booking has total_price
\* equal to flight.price times passengers, and not less than flight.price.
C7_TotalPrice ==
    pbpc = "returned" /\ bconf # None =>
        /\ bconf.total_price = bflight.price * breq.passengers
        /\ bconf.total_price >= bflight.price

\* a confirmation for more than one passenger on a flight with a price
C7_Witness ==
    /\ pbpc = "returned"
    /\ bconf # None
    /\ breq.passengers >= 2
    /\ bflight.price > 0

\* C8: with a seat-preference text supplied and the seat agent raising or
\* answering SeatSelectionFailed, process_booking still returns a
\* BookingConfirmation, with the seat absent.
C8_BookingSurvivesSeatFailure ==
    (/\ pbpc \in {"returned", "raised"}
     /\ bseatRun # None
     /\ bseatRun.kind \in {"exception", "SeatSelectionFailed"}) =>
        /\ pbpc = "returned"
        /\ bconf.seat = None

C10_NoResultsShortCircuit ==
    (/\ apc \in {"returned", "raised"}
     /\ fetchedTexts # {}
     /\ \A t \in fetchedTexts : NoResultsPattern(t)) =>
        /\ apc = "returned"
        /\ final.kind = "NoFlightFound"
        /\ ~extractionInvoked

\* C11: for an answer whose flights all match the request, validation ends
\* in a returned FlightSearchResult whose cheapest_flight is the minimum
\* price among its flights.
C11_CheapestIsMinimum ==
    (/\ apc \in {"returned", "raised"}
     /\ output.kind = "FlightSearchResult"
     /\ output.flights # <<>>
     /\ \A i \in DOMAIN output.flights : ~Mismatch(req, output.flights[i])) =>
        /\ apc = "returned"
        /\ final.kind = "FlightSearchResult"
        /\ final.cheapest_flight = {MinPrice(final.flights)}

\* C12: an answer that fails the origin/destination/date check is never
\* returned; it makes the agent ask the model again while fewer than 2
\* retries are used, and ends the run with an exception once both are
\* used. The retry count never passes 2.
C12_BoundedRetry ==
    [][/\ retriesUsed' <= Retries
       /\ (/\ apc = "validate"
           /\ output.kind = "FlightSearchResult"
           /\ \E i \in DOMAIN output.flights : Mismatch(req, output.flights[i])) =>
              /\ final' = final
              /\ IF retriesUsed < Retries
                 THEN apc' = "model" /\ retriesUsed' = retriesUsed + 1
                 ELSE apc' = "raised" /\ retriesUsed' = retriesUsed]_vars

\* the third mismatching answer in a row, no tool called: the run raised
C12_Witness ==
    /\ apc = "raised"
    /\ retriesUsed = Retries
    /\ toolCalls = 0
    /\ output.kind = "FlightSearchResult"
    /\ \E i \in DOMAIN output.flights : Mismatch(req, output.flights[i])

\* C13: the seat validator returns a SeatPreference only when its row is
\* within the agent's row bound and its seat is one of A to F; a rejected
\* answer costs a retry, of which there is at most 1; a SeatSelectionFailed
\* is returned as it is, without a retry.
C13_SeatValidator ==
    [][/\ sretries' <= SeatRetries
       /\ (sapc' = "returned" /\ sfinal'.kind = "SeatPreference") =>
              /\ sfinal'.row \in 1..RowBound(svariant)
              /\ sfinal'.seat \in SeatLetters
       /\ (sapc = "validate" /\ sobj.kind = "SeatSelectionFailed") =>
              /\ sapc' = "returned"
              /\ sfinal' = sobj
              /\ sretries' = sretries
       /\ (sapc = "construct" /\ sraw.kind = "SeatPreference"
             /\ (sraw.row \notin 1..RowBound(svariant) \/ sraw.seat \notin SeatLetters)) =>
              /\ sfinal' = sfinal
              /\ IF sretries < SeatRetries
                 THEN sapc' = "model" /\ sretries' = sretries + 1
                 ELSE sapc' = "raised"]_vars

\* a seat is returned after one answer was turned down
C13_Witness ==
    /\ sapc = "returned"
    /\ sfinal.kind = "SeatPreference"
    /\ sretries = 1

\* C14: a constructed SeatPreference has seat_type window for seat A or F,
\* aisle for C or D, middle for B or E, whatever seat_type was passed.
C14_SeatTypeDerived ==
    (sobj.kind = "SeatPreference") =>
        sobj.seat_type = (IF sobj.seat \in {"A", "F"} THEN "window"
                          ELSE IF sobj.seat \in {"C", "D"} THEN "aisle"
                          ELSE "middle")

\* the text YYYY-MM-DD of each date the requests carry
IsoText(dt) ==
    CASE dt = MkDate(2025, 1, 5) ->
           <<"2", "0", "2", "5", "-", "0", "1", "-", "0", "5">>
      [] dt = MkDate(2025, 11, 21) ->
           <<"2", "0", "2", "5", "-", "1", "1", "-", "2", "1">>

\* C15: the URL is https://www.kayak.com/flights/{origin}-{destination}/
\* {departure as YYYY-MM-DD}, then /{return date} exactly when return_date
\* is present, then ?sort=bestflight_a&currency=USD; requests that agree on
\* these four fields get the same URL.
C15_KayakUrl ==
    /\ \A i \in DOMAIN kurls :
         kurls[i] =
            <<"https://www.kayak.com/flights/">> \o kreqs[i].origin \o <<"-">>
              \o kreqs[i].destination \o <<"/">> \o IsoText(kreqs[i].departure_date)
              \o (IF kreqs[i].return_date = None THEN <<>>
                  ELSE <<"/">> \o IsoText(kreqs[i].return_date))
              \o <<"?sort=bestflight_a&currency=USD">>
    /\ \A i, j \in DOMAIN kurls :
         (/\ kreqs[i].origin = kreqs[j].origin
          /\ kreqs[i].destination = kreqs[j].destination
          /\ kreqs[i].departure_date = kreqs[j].departure_date
          /\ kreqs[i].return_date = kreqs[j].return_date) =>
             kurls[i] = kurls[j]

\* two round-trip requests that differ in passengers and class only
C15_Witness ==
    /\ Len(kurls) = 2
    /\ kreqs[1].return_date # None
    /\ kreqs[1].passengers # kreqs[2].passengers
    /\ kreqs[1].flight_class # kreqs[2].flight_class
    /\ [kreqs[1] EXCEPT !.passengers = 0, !.flight_class = ""] =
       [kreqs[2] EXCEPT !.passengers = 0, !.flight_class = ""]

\* C16: token set, POST answered with success and a run id, first poll
\* SUCCEEDED, first dataset item with html: the tool returns the text of
\* that html after exactly one POST and two GETs.
C16_SuccessfulCrawl ==
    (/\ tpc \in {"returned", "raised"}
     /\ token \notin {NoText, ""}
     /\ envPost.kind = "http"
     /\ envPost.code \in {200, 201}
     /\ envPost.body.hasId
     /\ envDelay = 0
     /\ envTerminal = Http(200, StatusBody("SUCCEEDED", TRUE, <<>>))
     /\ envDataset.kind = "http"
     /\ envDataset.code = 200
     /\ envDataset.body.shape = "list"
     /\ envDataset.body.items # <<>>
     /\ "html" \in envDataset.body.items[1].has
     /\ envDataset.body.items[1].html # <<>>) =>
        /\ tpc = "returned"
        /\ tresult = Html2Text(envDataset.body.items[1].html)
        /\ posts = 1
        /\ gets = 2

C18_MissingTokenRaises ==
    (token \in {NoText, ""}) =>
        /\ posts = 0
        /\ gets = 0
        /\ tpc \in {"start", "raised"}
        /\ tpc = "raised" => traised = "APIFY_API_TOKEN is not set"

C18_Witness ==
    /\ token \in {NoText, ""}
    /\ tpc = "raised"
    /\ traised = "APIFY_API_TOKEN is not set"

\* lower() of the words a returned message is made of
LowerMessageWord(w) ==
    CASE w \in {"Error", "ERROR", "error"} -> "error"
      [] w \in {"Failed", "FAILED", "failed"} -> "failed"
      [] OTHER -> LowerWord(w)

\* C19: past the token check, every failure outcome is a returned string
\* that is empty or contains "error" or "failed" in some letter case.
C19_FailuresDetectable ==
    (tpc = "returned" /\ posts >= 1 /\ ~tsuccess) =>
        \/ tresult = <<>>
        \/ \E i \in DOMAIN tresult : LowerMessageWord(tresult[i]) \in {"error", "failed"}

\* C20: the tool makes at most 20 status polls; when all of them report a
\* running status it returns a failure string; every call ends.
C20_PollingBounded ==
    /\ [](/\ polls <= MaxPolls
          /\ (tpc = "returned" /\ polls >= 1 /\ envDelay >= MaxPolls) =>
                /\ ~tsuccess
                /\ gets = MaxPolls
                /\ Contains(tresult, <<"Max", "polling", "attempts", "reached">>))
    /\ <>(tpc \in {"returned", "raised"})

\* twenty polls, all answered RUNNING
C20_Witness ==
    /\ tpc = "returned"
    /\ envDelay >= MaxPolls
    /\ polls = MaxPolls
    /\ run_status = "RUNNING"

\* C21: complete_booking_workflow called with an empty available_flights
\* runs the flight search to obtain candidates; it ends in an error only
\* when that search found none.
C21_EmptyListSearches ==
    (wpc \in {"returned", "raised"} /\ available_flights = <<>>) =>
        \E i \in DOMAIN wsteps : wsteps[i] = "search"

WorkflowOrder == <<"search", "select", "buy">>

\* C22: the workflow's calls happen in the order search, seat selection,
\* purchase; seat selection starts only with a flight in hand, buy_tickets
\* only with a seat in hand, and a run that has ended makes no further call.
C22_StepOrder ==
    /\ [](/\ \E n \in 0..Len(WorkflowOrder) : wsteps = SubSeq(WorkflowOrder, 1, n)
          /\ Len(wsteps) >= 2 => wflight \in FlightPool
          /\ Len(wsteps) >= 3 => selectOutcome.kind = "SeatPreference")
    /\ [][(wpc \in {"returned", "raised"}) => (wsteps' = wsteps)]_vars

\* a run that searched, selected a seat, bought and returned success
C22_Witness ==
    /\ wpc = "returned"
    /\ wresult.status = "success"
    /\ wsteps = WorkflowOrder
    /\ selectOutcome \in AgentSeats

\* a text of the form YYYY-MM-DD
IsoForm(s) ==
    /\ Len(s) = 10
    /\ s[5] = "-" /\ s[8] = "-"
    /\ \A i \in (1..10) \ {5, 8} : IsDigit(s[i])

\* C23: quick_booking given a departure date text that is not of the form
\* YYYY-MM-DD returns an error result and attempts no booking: no search,
\* no seat selection, no purchase.
C23_BadDateNoBooking ==
    (/\ qin # None
     /\ wpc # "quick"
     /\ qin.departure_date.isStr
     /\ ~IsoForm(qin.departure_date.text)) =>
        /\ wpc = "returned"
        /\ wresult.status = "error"
        /\ wsteps = <<>>

\* C24: for a non-empty flight list, a failing Summarization Agent call
\* makes generate_flight_summary return the fallback summary: total_flights
\* is the list's length, direct plus connecting flights is that total,
\* best_deal is a flight of minimal price and best_timing the first flight.
C24_FallbackSummary ==
    (sumPc \notin {"run", "format", "fallback"} /\ sumAgent = "raised") =>
        /\ sumPc = "returned"
        /\ sumResult.kind = "fallback"
        /\ sumResult.total_flights = Len(sumFlights)
        /\ sumResult.direct_flights + sumResult.connecting_flights = Len(sumFlights)
        /\ \E i \in DOMAIN sumFlights :
             /\ sumResult.best_deal = sumFlights[i]
             /\ \A j \in DOMAIN sumFlights : sumFlights[i].price <= sumFlights[j].price
        /\ sumResult.best_timing = sumFlights[1]

\* C25: browserbase_tool raises before any network attempt whenever the API
\* key or the project identifier is absent; with both present, every
\* session, connection or navigation error comes back as a text beginning
\* with "Error" and is not raised.
C25_CredentialsChecked ==
    bbPc \in {"returned", "raised"} /\ bbEnv # None =>
        IF Absent(bbKey) \/ Absent(bbProject)
        THEN bbPc = "raised" /\ bbNet = 0
        ELSE bbErrors # {} => (bbPc = "returned" /\ bbResult[1] = "Error")

\* C26: search_kayak_flights always hands a list of flights (possibly
\* empty) to the language model and never raises, whatever the fetch tool
\* and the Extraction Agent do.
C26_AlwaysAList == kpc # "raised"

\* C27: no two searches of a batch that are in flight at the same time
\* hold the same usage tracker instance.
C27_TrackerPerSearch ==
    \A i, j \in DOMAIN task :
        (/\ i # j
         /\ task[i].pc \notin {"fetch", "done"}      \* both have started and
         /\ task[j].pc \notin {"fetch", "done"}) =>  \* neither has returned
            task[i].usage # task[j].usage

LoggedAttempt == seatLog'[Len(seatLog')]

\* the attempts before attempt k that got an answer from the agent
AnsweredBefore(k) ==
    LET Answered(j) == seatLog[j].what \notin {"empty", "exception"}
    IN  SelectSeq([j \in 1..(k - 1) |-> j], Answered)

\* C30 as stated: an attempt in which the agent call raises, or for which
\* the input is empty, leaves the accumulated message history and the usage
\* tracker exactly as they were; every attempt is invoked with the history
\* of the last answered attempt; the caller's list is never changed.
C30_FailedAttemptFrame ==
    /\ [](\A k \in DOMAIN seatLog : seatLog[k].sent = AnsweredBefore(k))
    /\ [][(Len(seatLog') = Len(seatLog) + 1) =>
            /\ LoggedAttempt.sent = history
            /\ LoggedAttempt.what \in {"empty", "exception"} =>
                 (history' = history /\ usageRequests' = usageRequests)
            /\ callerHistory' = callerHistory]_vars

\* C30 amended: the message history is left as it was by an attempt whose
\* agent call raises or whose input is empty; the usage tracker is left as
\* it was when the input is empty, and after a call that raises it holds
\* what it held plus the requests that call made; every attempt is invoked
\* with the history of the last answered attempt; the caller's list is
\* never changed.
C30_HistoryFrame ==
    /\ [](\A k \in DOMAIN seatLog : seatLog[k].sent = AnsweredBefore(k))
    /\ [][(Len(seatLog') = Len(seatLog) + 1) =>
            /\ LoggedAttempt.sent = history
            /\ LoggedAttempt.what \in {"empty", "exception"} => history' = history
            /\ LoggedAttempt.what = "empty" => usageRequests' = usageRequests
            /\ LoggedAttempt.what = "exception" => usageRequests' >= usageRequests
            /\ callerHistory' = callerHistory]_vars

\* an answered first attempt, a second attempt whose agent call raised
\* after making requests, and a third attempt sent the history of the first
C30_Witness ==
    /\ Len(seatLog) = 3
    /\ seatLog[1].what = "SeatSelectionFailed"
    /\ seatLog[2].what = "exception"
    /\ seatLog[3].usageBefore > seatLog[2].usageBefore
    /\ seatLog[3].sent = <<1>>
    /\ callerHistory = <<>>

====
